---- MODULE Spec2Model ----
(***************************************************************************)
(* In-memory todo store of the console application                         *)
(* (phase-1-console-app/src/models.py and storage.py).                     *)
(*                                                                         *)
(* Python values are represented as follows.                               *)
(*   str        a sequence of one-character strings, "ab" is <<"a","b">>   *)
(*   None       the one-element sequence <<"None">> (no str, date or list  *)
(*              of the model equals it)                                    *)
(*   datetime   <<year, month, day>> (the time of day never takes part in  *)
(*              a decision of the code and is left out)                    *)
(*   dict       a function from field names to values; a missing key is a  *)
(*              name outside its DOMAIN                                    *)
(*   tuple      a sequence                                                 *)
(*   f-string   the sequence of its literal pieces and formatted values    *)
(***************************************************************************)
EXTENDS Integers, Sequences, FiniteSets, TLC

VARIABLES todos, next_id, now, result, held, shared

vars == <<todos, next_id, now, result, held, shared>>

None == <<"None">>

-----------------------------------------------------------------------------
(* str helpers                                                             *)

Whitespace == {" ", "\t", "\n"}

UpperChars == <<"A","B","C","D","E","F","G","H","I","J","K","L","M",
                "N","O","P","Q","R","S","T","U","V","W","X","Y","Z">>

LowerChars == <<"a","b","c","d","e","f","g","h","i","j","k","l","m",
                "n","o","p","q","r","s","t","u","v","w","x","y","z">>

Digits == <<"0","1","2","3","4","5","6","7","8","9">>

IndexOf(seq, c) == CHOOSE i \in 1..Len(seq) : seq[i] = c

LowerChar(c) ==
    IF \E i \in 1..Len(UpperChars) : UpperChars[i] = c
    THEN LowerChars[IndexOf(UpperChars, c)]
    ELSE c

\* the capital I with dot above (U+0130) and the combining dot above (U+0307),
\* characters outside ASCII written by their code point
DottedI == "U+0130"
CombiningDot == "U+0307"

\* the characters str.lower() puts for c: one for every character but
\* U+0130, for which it puts i followed by U+0307
LowerOf(c) == IF c = DottedI THEN <<"i", CombiningDot>> ELSE <<LowerChar(c)>>

\* str.lower()
RECURSIVE Lower(_)
Lower(s) == IF s = <<>> THEN <<>> ELSE LowerOf(Head(s)) \o Lower(Tail(s))

\* str.upper(), on the characters of the console's answers
Upper(s) ==
    [i \in 1..Len(s) |->
        IF \E k \in 1..Len(LowerChars) : LowerChars[k] = s[i]
        THEN UpperChars[IndexOf(LowerChars, s[i])]
        ELSE s[i]]

RECURSIVE LStrip(_)
LStrip(s) ==
    IF s # <<>> /\ Head(s) \in Whitespace THEN LStrip(Tail(s)) ELSE s

RECURSIVE RStrip(_)
RStrip(s) ==
    IF s # <<>> /\ s[Len(s)] \in Whitespace
    THEN RStrip(SubSeq(s, 1, Len(s) - 1))
    ELSE s

\* str.strip()
Strip(s) == RStrip(LStrip(s))

\* str.split(sep): the pieces between the separators, empty pieces kept
RECURSIVE SplitFrom(_, _, _)
SplitFrom(s, sep, piece) ==
    IF s = <<>> THEN <<piece>>
    ELSE IF Head(s) = sep
         THEN <<piece>> \o SplitFrom(Tail(s), sep, <<>>)
         ELSE SplitFrom(Tail(s), sep, Append(piece, Head(s)))

Split(s, sep) == SplitFrom(s, sep, <<>>)

\* c * n
Rep(c, n) == SubSeq([i \in 1..n |-> c], 1, n)

IsDigits(s) == s # <<>> /\ \A i \in 1..Len(s) : \E d \in 1..10 : Digits[d] = s[i]

RECURSIVE DigitsValue(_)
DigitsValue(s) ==
    IF s = <<>> THEN 0
    ELSE 10 * DigitsValue(SubSeq(s, 1, Len(s) - 1)) + (IndexOf(Digits, s[Len(s)]) - 1)

-----------------------------------------------------------------------------
(* Raw (untyped) inputs: an int, a str or None, tagged with the Python type *)

IntVal(n) == [type |-> "int", val |-> n]
StrVal(s) == [type |-> "str", val |-> s]
NoneVal == [type |-> "NoneType", val |-> None]

ListVal(l) == [type |-> "list", val |-> l]

\* the text of a str argument of int() without its surrounding whitespace and sign
IntBody(x) ==
    LET t == Strip(x.val)
    IN  IF t # <<>> /\ Head(t) \in {"+", "-"} THEN Tail(t) ELSE t

\* a float: a number of tenths, float("inf") or float("nan")
FloatVal(tenths) == [type |-> "float", val |-> <<"finite", tenths>>]
FloatInf == [type |-> "float", val |-> <<"inf", 0>>]
FloatNaN == [type |-> "float", val |-> <<"nan", 0>>]

\* int(x) raises OverflowError, which validate_id does not catch
IntOverflows(x) == x.type = "float" /\ x.val[1] = "inf"

\* int(x) returns (it raises ValueError, TypeError or OverflowError otherwise)
IntParses(x) ==
    \/ x.type = "int"
    \/ x.type = "str" /\ IsDigits(IntBody(x))
    \/ x.type = "float" /\ x.val[1] = "finite"

\* int(x), where it returns; a float is truncated towards zero
IntOf(x) ==
    IF x.type = "int" THEN x.val
    ELSE IF x.type = "float"
    THEN (IF x.val[2] >= 0 THEN x.val[2] \div 10 ELSE 0 - ((0 - x.val[2]) \div 10))
    ELSE IF Head(Strip(x.val)) = "-" THEN 0 - DigitsValue(IntBody(x))
    ELSE DigitsValue(IntBody(x))

-----------------------------------------------------------------------------
(* models.py: validation                                                   *)

MAX_TITLE == 200
MAX_DESCRIPTION == 1000
MAX_TAG == 20

ERR_ID == <<"Error: ID must be a positive integer.">>
ERR_TITLE_EMPTY == <<"Error: Title cannot be empty.">>
ERR_TITLE_LONG == <<"Error: Title exceeds 200 character limit.">>
ERR_DESC_LONG == <<"Error: Description exceeds 1000 character limit.">>
ERR_PRIORITY == <<"Error: Priority must be High, Medium, or Low.">>
ERR_TAGS == <<"Error: Each tag must be 1-20 characters.">>
ERR_PATTERN == <<"Error: Recurrence pattern must be None, Daily, Weekly, or Monthly.">>
ERR_CAPACITY == <<"Error: Maximum 1000 todos reached.">>
OK_MSG == <<"">>

High == <<"H","i","g","h">>
Medium == <<"M","e","d","i","u","m">>
Low == <<"L","o","w">>
Daily == <<"D","a","i","l","y">>
Weekly == <<"W","e","e","k","l","y">>
Monthly == <<"M","o","n","t","h","l","y">>

\* validate_id(id_value) -> (valid, parsed_id, error_message), where int(id_value)
\* raises no OverflowError; a caller tests IntOverflows first, and raises
validate_id(id_value) ==
    IF ~IntParses(id_value) THEN <<FALSE, None, ERR_ID>>
    ELSE LET parsed_id == IntOf(id_value)
         IN  IF parsed_id <= 0 THEN <<FALSE, None, ERR_ID>>
             ELSE <<TRUE, parsed_id, OK_MSG>>

\* validate_title admitting one character too many
validate_title_off_by_one(title) ==
    IF title = None \/ title = <<>> \/ Strip(title) = <<>>
    THEN <<FALSE, ERR_TITLE_EMPTY>>
    ELSE IF Len(title) > MAX_TITLE + 1 THEN <<FALSE, ERR_TITLE_LONG>>
    ELSE <<TRUE, OK_MSG>>

\* validate_title(title) -> (valid, error_message)
validate_title(title) ==
    IF title = None \/ title = <<>> \/ Strip(title) = <<>>
    THEN <<FALSE, ERR_TITLE_EMPTY>>
    ELSE IF Len(title) > MAX_TITLE THEN <<FALSE, ERR_TITLE_LONG>>
    ELSE <<TRUE, OK_MSG>>

\* validate_description(description) -> (valid, error_message)
validate_description(description) ==
    IF description = None THEN <<TRUE, OK_MSG>>
    ELSE IF description = <<>> THEN <<TRUE, OK_MSG>>
    ELSE IF Len(description) > MAX_DESCRIPTION THEN <<FALSE, ERR_DESC_LONG>>
    ELSE <<TRUE, OK_MSG>>

\* validate_priority returning the accepted text as the caller wrote it
validate_priority_as_written(priority) ==
    IF priority = None \/ Strip(priority) = <<>>
    THEN <<FALSE, None, ERR_PRIORITY>>
    ELSE IF Lower(Strip(priority)) \in {Lower(High), Lower(Medium), Lower(Low)}
         THEN <<TRUE, Strip(priority), OK_MSG>>
         ELSE <<FALSE, None, ERR_PRIORITY>>

\* validate_priority(priority) -> (valid, normalized_priority, error_message)
validate_priority(priority) ==
    IF priority = None \/ Strip(priority) = <<>>
    THEN <<FALSE, None, ERR_PRIORITY>>
    ELSE LET priority_str == Lower(Strip(priority))
         IN  IF priority_str = Lower(High) THEN <<TRUE, High, OK_MSG>>
             ELSE IF priority_str = Lower(Medium) THEN <<TRUE, Medium, OK_MSG>>
             ELSE IF priority_str = Lower(Low) THEN <<TRUE, Low, OK_MSG>>
             ELSE <<FALSE, None, ERR_PRIORITY>>

\* the loop of validate_tags over tag_list: (valid, normalized_tags, error)
RECURSIVE NormalizeTags(_, _)
NormalizeTags(tag_list, normalized_tags) ==
    IF tag_list = <<>> THEN <<TRUE, normalized_tags, OK_MSG>>
    ELSE LET tag == Head(tag_list)
             tag_lower == Lower(tag)
         IN  IF tag = <<>> THEN NormalizeTags(Tail(tag_list), normalized_tags)
             ELSE IF Len(tag) > MAX_TAG THEN <<FALSE, None, ERR_TAGS>>
             ELSE IF \E i \in 1..Len(normalized_tags) : normalized_tags[i] = tag_lower
             THEN NormalizeTags(Tail(tag_list), normalized_tags)
             ELSE NormalizeTags(Tail(tag_list), Append(normalized_tags, tag_lower))

\* validate_tags taking the pieces as they are, untrimmed
validate_tags_untrimmed(tags) ==
    IF tags.type = "NoneType" THEN <<TRUE, <<>>, OK_MSG>>
    ELSE IF tags.type = "str" /\ Strip(tags.val) = <<>> THEN <<TRUE, <<>>, OK_MSG>>
    ELSE NormalizeTags(IF tags.type = "str" THEN Split(tags.val, ",") ELSE tags.val, <<>>)

\* validate_tags(tags): tags is None, a str ([type |-> "str"]) or a list of
\* str ([type |-> "list"])
validate_tags(tags) ==
    IF tags.type = "NoneType" THEN <<TRUE, <<>>, OK_MSG>>
    ELSE IF tags.type = "str" /\ Strip(tags.val) = <<>> THEN <<TRUE, <<>>, OK_MSG>>
    ELSE LET pieces == IF tags.type = "str" THEN Split(tags.val, ",") ELSE tags.val
             tag_list == [i \in 1..Len(pieces) |-> Strip(pieces[i])]
         IN  NormalizeTags(tag_list, <<>>)

\* validate_recurrence_pattern(pattern) -> (valid, normalized_pattern, error)
validate_recurrence_pattern(pattern) ==
    IF pattern = None \/ Strip(pattern) = <<>> THEN <<TRUE, None, OK_MSG>>
    ELSE LET pattern_str == Lower(Strip(pattern))
         IN  IF pattern_str = <<"n","o","n","e">> THEN <<TRUE, None, OK_MSG>>
             ELSE IF pattern_str = Lower(Daily) THEN <<TRUE, Daily, OK_MSG>>
             ELSE IF pattern_str = Lower(Weekly) THEN <<TRUE, Weekly, OK_MSG>>
             ELSE IF pattern_str = Lower(Monthly) THEN <<TRUE, Monthly, OK_MSG>>
             ELSE <<FALSE, None, ERR_PATTERN>>

\* create_todo storing a description of None as it is
create_todo_keeps_none(id, title, description, priority, tags, recurrence_pattern, recurrence_interval) ==
    [id |-> id,
     title |-> title,
     description |-> description,
     completed |-> FALSE,
     priority |-> priority,
     tags |-> IF tags.type = "NoneType" THEN <<>> ELSE tags.val,
     created_at |-> now,
     recurrence_pattern |-> recurrence_pattern,
     recurrence_interval |-> recurrence_interval,
     next_occurrence |-> None]

\* create_todo(id, title, description, priority, tags, recurrence_pattern,
\* recurrence_interval), called at the clock value now; tags is NoneVal (the
\* default) or a ListVal
create_todo(id, title, description, priority, tags, recurrence_pattern, recurrence_interval) ==
    [id |-> id,
     title |-> title,
     description |-> IF description = None THEN <<>> ELSE description,
     completed |-> FALSE,
     priority |-> priority,
     tags |-> IF tags.type = "NoneType" THEN <<>> ELSE tags.val,
     created_at |-> now,
     recurrence_pattern |-> recurrence_pattern,
     recurrence_interval |-> recurrence_interval,
     next_occurrence |-> None]

-----------------------------------------------------------------------------
(* datetime, timedelta and relativedelta as calculate_next_occurrence uses  *)
(* them: proleptic Gregorian dates from 0001-01-01 to 9999-12-31            *)

OverflowError == <<"OverflowError">>
ValueError == <<"ValueError">>

MINYEAR == 1
MAXYEAR == 9999
\* the largest number of days a timedelta holds
MAX_DELTA_DAYS == 999999999

IsLeap(y) == y % 4 = 0 /\ (y % 100 # 0 \/ y % 400 = 0)

DaysInMonth(y, m) ==
    IF m = 2 THEN (IF IsLeap(y) THEN 29 ELSE 28)
    ELSE IF m \in {4, 6, 9, 11} THEN 30
    ELSE 31

DaysBeforeYear(y) ==
    (y - 1) * 365 + ((y - 1) \div 4) - ((y - 1) \div 100) + ((y - 1) \div 400)

RECURSIVE DaysBeforeMonth(_, _)
DaysBeforeMonth(y, m) ==
    IF m = 1 THEN 0 ELSE DaysBeforeMonth(y, m - 1) + DaysInMonth(y, m - 1)

\* date.toordinal(): 0001-01-01 is day 1
ToOrdinal(date) == DaysBeforeYear(date[1]) + DaysBeforeMonth(date[1], date[2]) + date[3]

MAX_ORDINAL == ToOrdinal(<<MAXYEAR, 12, 31>>)

\* the month and day of day number n (from 0) of a year
RECURSIVE MonthDayOf(_, _, _)
MonthDayOf(y, m, n) ==
    IF n < DaysInMonth(y, m) THEN <<y, m, n + 1>>
    ELSE MonthDayOf(y, m + 1, n - DaysInMonth(y, m))

\* date.fromordinal(n)
FromOrdinal(n) ==
    LET n0 == n - 1
        n400 == n0 \div 146097
        r400 == n0 % 146097
        n100 == r400 \div 36524
        r100 == r400 % 36524
        n4 == r100 \div 1461
        r4 == r100 % 1461
        n1 == r4 \div 365
        r1 == r4 % 365
        year == n400 * 400 + 1 + n100 * 100 + n4 * 4 + n1
    IN  IF n1 = 4 \/ n100 = 4 THEN <<year - 1, 12, 31>>
        ELSE MonthDayOf(year, 1, r1)

\* base_date + timedelta(days=days)
AddDays(base_date, days) ==
    IF days > MAX_DELTA_DAYS \/ days < 0 - MAX_DELTA_DAYS THEN OverflowError
    ELSE LET n == ToOrdinal(base_date) + days
         IN  IF n < 1 \/ n > MAX_ORDINAL THEN OverflowError ELSE FromOrdinal(n)

\* a month taken as thirty days
AddMonthsAsThirtyDays(base_date, months) == AddDays(base_date, 30 * months)

\* base_date + relativedelta(months=months): the same day of the month that
\* many calendar months away, clamped to the last day of the target month
AddMonths(base_date, months) ==
    LET index == (base_date[1] * 12 + (base_date[2] - 1)) + months
        year == index \div 12
        month == (index % 12) + 1
        day == IF base_date[3] < DaysInMonth(year, month)
               THEN base_date[3] ELSE DaysInMonth(year, month)
    IN  IF year < MINYEAR \/ year > MAXYEAR THEN ValueError
        ELSE <<year, month, day>>

DateLess(a, b) == ToOrdinal(a) < ToOrdinal(b)

-----------------------------------------------------------------------------
(* storage.py                                                              *)

MAX_TODOS == 1000

\* dict.get(key, default)
Get(d, key, default) == IF key \in DOMAIN d THEN d[key] ELSE default

\* d[key] = value
SetKey(d, key, value) ==
    IF key \in DOMAIN d THEN [d EXCEPT ![key] = value]
    ELSE [k \in DOMAIN d \cup {key} |-> IF k = key THEN value ELSE d[k]]

\* a removal that drops the head of the list whatever x is
RemoveHead(list, x) == Tail(list)

\* list.remove(x): drops the first element equal to x
RemoveFirst(list, x) ==
    LET j == CHOOSE k \in 1..Len(list) :
                 list[k] = x /\ \A h \in 1..(k - 1) : list[h] # x
    IN  SubSeq(list, 1, j - 1) \o SubSeq(list, j + 1, Len(list))

\* the last call: its name, its arguments, and the tuple it returned or the
\* exception it raised
Returned(op, args, ret) == [op |-> op, args |-> args, ret |-> ret, exc |-> None]
Raised(op, args, exc) == [op |-> op, args |-> args, ret |-> None, exc |-> exc]

\* the index in todos of the todo get_todo_by_id(parsed_id) returns, 0 for None
IndexOfId(parsed_id) ==
    IF \E i \in 1..Len(todos) : todos[i]["id"] = parsed_id
    THEN CHOOSE i \in 1..Len(todos) :
             todos[i]["id"] = parsed_id /\ \A h \in 1..(i - 1) : todos[h]["id"] # parsed_id
    ELSE 0

\* Objects.  A dict or a list is an object: two names of one object see each
\* other's writes.  held are the records a caller kept from its latest
\* query: the dict of the store with that id while live holds, and the
\* dict as it was when the store let go of it afterwards.  shared holds the
\* groups of ids of stored todos whose "tags" are one and the same list.
Reference(todo) == [id |-> todo["id"], live |-> TRUE, kept |-> None]

\* the record a caller sees through the reference h
View(h) == IF h.live THEN todos[IndexOfId(h.id)] ELSE h.kept

\* the held records once the store has let go of the dict todo
Detached(todo) ==
    [p \in 1..Len(held) |->
        IF held[p].live /\ held[p].id = todo["id"]
        THEN [held[p] EXCEPT !.live = FALSE, !.kept = todo] ELSE held[p]]

\* the ids of the todos whose tags are the list of the todo id
SharingTags(id) == {id} \cup UNION {g \in shared : id \in g}

\* the groups once the todo id has a list of its own, or is gone
Unshared(id) == {g \in {h \ {id} : h \in shared} : Cardinality(g) > 1}

\* the groups after a new instance took the very list of the todo it repeats
SpawnSharingOneList(todo_id, new_id) == (shared \ {g \in shared : todo_id \in g})
                                           \cup {SharingTags(todo_id) \cup {new_id}}

\* the groups after mark_complete gave the new instance tags.copy()
SpawnSharing(todo_id, new_id) == shared

NotFoundMsg(parsed_id) == <<"Error: Todo with ID ", parsed_id, " not found.">>

\* calculate_next_occurrence(base_date, pattern, interval)
calculate_next_occurrence(base_date, pattern, interval) ==
    IF pattern = Daily THEN AddDays(base_date, interval)
    ELSE IF pattern = Weekly THEN AddDays(base_date, 7 * interval)
    ELSE IF pattern = Monthly THEN AddMonths(base_date, interval)
    ELSE None

-----------------------------------------------------------------------------
(* Bounds of the model                                                     *)

\* ids handed out after the initial state
MaxNew == 2

\* the number of add_todo calls that loaded the store of InitLoaded
Preload == 999

Loaded == next_id > Preload

\* add_todo and the spawn of mark_complete are disabled once next_id has
\* advanced this far beyond the initial state
CanAllocate == next_id < (IF Loaded THEN Preload + 1 ELSE 1) + MaxNew

-----------------------------------------------------------------------------
(* storage.py: the operations. Every action is one call; it leaves the     *)
(* returned tuple (or the exception raised) in result.                     *)

\* a capacity check that admits one todo too many
AtCapacityOffByOne == Len(todos) > MAX_TODOS

\* the capacity check of add_todo
AtCapacity == Len(todos) >= MAX_TODOS

\* an id taken from the size of the collection instead of the counter
FreshIdFromLength == Len(todos) + 1

\* the id add_todo assigns
FreshId == next_id

\* add_todo(title, description) -> (success, todo_id, message)
add_todo(title, description) ==
    LET title_v == validate_title(title)
        desc_v == validate_description(description)
        todo_id == FreshId
        new_todo == create_todo(todo_id, title, description, Medium, NoneVal, None, 1)
    IN  IF AtCapacity
        THEN /\ result' = Returned("add_todo", <<title, description>>,
                            <<FALSE, None, ERR_CAPACITY>>)
             /\ UNCHANGED <<todos, next_id, now, held, shared>>
        ELSE IF ~title_v[1]
        THEN /\ result' = Returned("add_todo", <<title, description>>, <<FALSE, None, title_v[2]>>)
             /\ UNCHANGED <<todos, next_id, now, held, shared>>
        ELSE IF ~desc_v[1]
        THEN /\ result' = Returned("add_todo", <<title, description>>, <<FALSE, None, desc_v[2]>>)
             /\ UNCHANGED <<todos, next_id, now, held, shared>>
        ELSE /\ CanAllocate
             /\ todos' = Append(todos, new_todo)
             /\ next_id' = next_id + 1
             /\ result' = Returned("add_todo", <<title, description>>,
                    <<TRUE, todo_id, <<"Todo added successfully! (ID: ", todo_id, ")">>>>)
             /\ UNCHANGED <<now, held, shared>>

\* the todo of mark_complete after todo["completed"] = True
Completed(todo) == SetKey(todo, "completed", TRUE)

\* the condition under which mark_complete creates the next instance
Recurs(todo) ==
    LET recurrence_pattern == Get(todo, "recurrence_pattern", None)
    IN  recurrence_pattern # None /\ recurrence_pattern \in {Daily, Weekly, Monthly}

\* the new instance mark_complete creates for todo
NextInstance(todo, new_id, interval, next_date) ==
    SetKey(create_todo(new_id, todo["title"], todo["description"],
                       Get(todo, "priority", Medium),
                       ListVal(Get(todo, "tags", <<>>)),
                       Get(todo, "recurrence_pattern", None),
                       interval),
           "next_occurrence", next_date)

\* mark_complete(todo_id) -> (success, message)
mark_complete(todo_id) ==
    LET v == validate_id(todo_id)
        parsed_id == v[2]
        i == IndexOfId(parsed_id)
        todo == Completed(todos[i])
        interval == Get(todo, "recurrence_interval", 1)
        next_date == calculate_next_occurrence(now, Get(todo, "recurrence_pattern", None), interval)
        new_id == next_id
    IN  IF IntOverflows(todo_id)
        THEN /\ result' = Raised("mark_complete", <<todo_id>>, OverflowError)
             /\ UNCHANGED <<todos, next_id, now, held, shared>>
        ELSE IF ~v[1]
        THEN /\ result' = Returned("mark_complete", <<todo_id>>, <<FALSE, v[3]>>)
             /\ UNCHANGED <<todos, next_id, now, held, shared>>
        ELSE IF i = 0
        THEN /\ result' = Returned("mark_complete", <<todo_id>>, <<FALSE, NotFoundMsg(parsed_id)>>)
             /\ UNCHANGED <<todos, next_id, now, held, shared>>
        ELSE IF Recurs(todo)
        THEN IF next_date \in {OverflowError, ValueError}
             THEN \* the exception leaves the function after completed was set
                  /\ todos' = [todos EXCEPT ![i] = todo]
                  /\ result' = Raised("mark_complete", <<todo_id>>, next_date)
                  /\ UNCHANGED <<next_id, now, held, shared>>
             ELSE /\ CanAllocate
                  /\ todos' = Append([todos EXCEPT ![i] = todo],
                                     NextInstance(todo, new_id, interval, next_date))
                  /\ next_id' = next_id + 1
                  /\ result' = Returned("mark_complete", <<todo_id>>,
                         <<TRUE, <<"Todo ID ", parsed_id,
                                   " marked as complete! Next occurrence created (ID: ",
                                   new_id, ").">>>>)
                  /\ shared' = SpawnSharing(parsed_id, new_id)
                  /\ UNCHANGED <<now, held>>
        ELSE /\ todos' = [todos EXCEPT ![i] = todo]
             /\ result' = Returned("mark_complete", <<todo_id>>,
                    <<TRUE, <<"Todo ID ", parsed_id, " marked as complete!">>>>)
             /\ UNCHANGED <<next_id, now, held, shared>>

\* mark_incomplete(todo_id) -> (success, message)
mark_incomplete(todo_id) ==
    LET v == validate_id(todo_id)
        parsed_id == v[2]
        i == IndexOfId(parsed_id)
    IN  IF IntOverflows(todo_id)
        THEN /\ result' = Raised("mark_incomplete", <<todo_id>>, OverflowError)
             /\ UNCHANGED <<todos, next_id, now, held, shared>>
        ELSE IF ~v[1]
        THEN /\ result' = Returned("mark_incomplete", <<todo_id>>, <<FALSE, v[3]>>)
             /\ UNCHANGED <<todos, next_id, now, held, shared>>
        ELSE IF i = 0
        THEN /\ result' = Returned("mark_incomplete", <<todo_id>>,
                            <<FALSE, NotFoundMsg(parsed_id)>>)
             /\ UNCHANGED <<todos, next_id, now, held, shared>>
        ELSE /\ todos' = [todos EXCEPT ![i] = SetKey(@, "completed", FALSE)]
             /\ result' = Returned("mark_incomplete", <<todo_id>>,
                    <<TRUE, <<"Todo ID ", parsed_id, " marked as incomplete!">>>>)
             /\ UNCHANGED <<next_id, now, held, shared>>

\* update_todo emptying the description when none is given
update_todo_empties_absent(todo_id, new_title, new_description) ==
    LET v == validate_id(todo_id)
        parsed_id == v[2]
        i == IndexOfId(parsed_id)
        title_v == validate_title(new_title)
        desc_v == validate_description(new_description)
        \* the todo once the title branch has run
        titled == IF new_title # None THEN SetKey(todos[i], "title", new_title) ELSE todos[i]
    IN  IF IntOverflows(todo_id)
        THEN /\ result' = Raised("update_todo", <<todo_id, new_title, new_description>>, OverflowError)
             /\ UNCHANGED <<todos, next_id, now, held, shared>>
        ELSE IF ~v[1]
        THEN /\ result' = Returned("update_todo", <<todo_id, new_title, new_description>>,
                            <<FALSE, v[3]>>)
             /\ UNCHANGED <<todos, next_id, now, held, shared>>
        ELSE IF i = 0
        THEN /\ result' = Returned("update_todo", <<todo_id, new_title, new_description>>,
                            <<FALSE, NotFoundMsg(parsed_id)>>)
             /\ UNCHANGED <<todos, next_id, now, held, shared>>
        ELSE IF new_title # None /\ ~title_v[1]
        THEN /\ result' = Returned("update_todo", <<todo_id, new_title, new_description>>,
                            <<FALSE, title_v[2]>>)
             /\ UNCHANGED <<todos, next_id, now, held, shared>>
        ELSE IF new_description # None /\ ~desc_v[1]
        THEN /\ todos' = [todos EXCEPT ![i] = titled]
             /\ result' = Returned("update_todo", <<todo_id, new_title, new_description>>,
                                 <<FALSE, desc_v[2]>>)
             /\ UNCHANGED <<next_id, now, held, shared>>
        ELSE /\ todos' = [todos EXCEPT ![i] =
                            IF new_description # None
                            THEN SetKey(titled, "description", new_description)
                            ELSE SetKey(titled, "description", <<>>)]
             /\ result' = Returned("update_todo", <<todo_id, new_title, new_description>>,
                    <<TRUE, <<"Todo ID ", parsed_id, " updated successfully!">>>>)
             /\ UNCHANGED <<next_id, now, held, shared>>

\* update_todo(todo_id, new_title, new_description) -> (success, message)
update_todo(todo_id, new_title, new_description) ==
    LET v == validate_id(todo_id)
        parsed_id == v[2]
        i == IndexOfId(parsed_id)
        title_v == validate_title(new_title)
        desc_v == validate_description(new_description)
        \* the todo once the title branch has run
        titled == IF new_title # None THEN SetKey(todos[i], "title", new_title) ELSE todos[i]
    IN  IF IntOverflows(todo_id)
        THEN /\ result' = Raised("update_todo", <<todo_id, new_title, new_description>>, OverflowError)
             /\ UNCHANGED <<todos, next_id, now, held, shared>>
        ELSE IF ~v[1]
        THEN /\ result' = Returned("update_todo", <<todo_id, new_title, new_description>>,
                            <<FALSE, v[3]>>)
             /\ UNCHANGED <<todos, next_id, now, held, shared>>
        ELSE IF i = 0
        THEN /\ result' = Returned("update_todo", <<todo_id, new_title, new_description>>,
                            <<FALSE, NotFoundMsg(parsed_id)>>)
             /\ UNCHANGED <<todos, next_id, now, held, shared>>
        ELSE IF new_title # None /\ ~title_v[1]
        THEN /\ result' = Returned("update_todo", <<todo_id, new_title, new_description>>,
                            <<FALSE, title_v[2]>>)
             /\ UNCHANGED <<todos, next_id, now, held, shared>>
        ELSE IF new_description # None /\ ~desc_v[1]
        THEN /\ todos' = [todos EXCEPT ![i] = titled]
             /\ result' = Returned("update_todo", <<todo_id, new_title, new_description>>,
                                 <<FALSE, desc_v[2]>>)
             /\ UNCHANGED <<next_id, now, held, shared>>
        ELSE /\ todos' = [todos EXCEPT ![i] =
                            IF new_description # None
                            THEN SetKey(titled, "description", new_description)
                            ELSE titled]
             /\ result' = Returned("update_todo", <<todo_id, new_title, new_description>>,
                    <<TRUE, <<"Todo ID ", parsed_id, " updated successfully!">>>>)
             /\ UNCHANGED <<next_id, now, held, shared>>

\* delete_todo(todo_id) -> (success, message)
delete_todo(todo_id) ==
    LET v == validate_id(todo_id)
        parsed_id == v[2]
        i == IndexOfId(parsed_id)
    IN  IF IntOverflows(todo_id)
        THEN /\ result' = Raised("delete_todo", <<todo_id>>, OverflowError)
             /\ UNCHANGED <<todos, next_id, now, held, shared>>
        ELSE IF ~v[1]
        THEN /\ result' = Returned("delete_todo", <<todo_id>>, <<FALSE, v[3]>>)
             /\ UNCHANGED <<todos, next_id, now, held, shared>>
        ELSE IF i = 0
        THEN /\ result' = Returned("delete_todo", <<todo_id>>, <<FALSE, NotFoundMsg(parsed_id)>>)
             /\ UNCHANGED <<todos, next_id, now, held, shared>>
        ELSE /\ todos' = RemoveFirst(todos, todos[i])
             /\ result' = Returned("delete_todo", <<todo_id>>,
                    <<TRUE, <<"Todo ID ", parsed_id, " deleted successfully!">>>>)
             /\ held' = Detached(todos[i])
             /\ shared' = Unshared(parsed_id)
             /\ UNCHANGED <<next_id, now>>

\* update_priority writing the priority before it is validated
update_priority_write_first(todo_id, new_priority) ==
    LET v == validate_id(todo_id)
        parsed_id == v[2]
        i == IndexOfId(parsed_id)
        priority_v == validate_priority(new_priority)
        normalized_priority == priority_v[2]
    IN  IF IntOverflows(todo_id)
        THEN /\ result' = Raised("update_priority", <<todo_id, new_priority>>, OverflowError)
             /\ UNCHANGED <<todos, next_id, now, held, shared>>
        ELSE IF ~v[1]
        THEN /\ result' = Returned("update_priority", <<todo_id, new_priority>>, <<FALSE, v[3]>>)
             /\ UNCHANGED <<todos, next_id, now, held, shared>>
        ELSE IF i = 0
        THEN /\ result' = Returned("update_priority", <<todo_id, new_priority>>,
                            <<FALSE, NotFoundMsg(parsed_id)>>)
             /\ UNCHANGED <<todos, next_id, now, held, shared>>
        ELSE IF ~priority_v[1]
        THEN /\ todos' = [todos EXCEPT ![i] = SetKey(@, "priority", new_priority)]
             /\ result' = Returned("update_priority", <<todo_id, new_priority>>,
                            <<FALSE, priority_v[3]>>)
             /\ UNCHANGED <<next_id, now, held, shared>>
        ELSE /\ todos' = [todos EXCEPT ![i] = SetKey(@, "priority", normalized_priority)]
             /\ result' = Returned("update_priority", <<todo_id, new_priority>>,
                    <<TRUE, <<"Todo ID ", parsed_id, " priority updated to ",
                              normalized_priority, "!">>>>)
             /\ UNCHANGED <<next_id, now, held, shared>>

\* update_priority(todo_id, new_priority) -> (success, message)
update_priority(todo_id, new_priority) ==
    LET v == validate_id(todo_id)
        parsed_id == v[2]
        i == IndexOfId(parsed_id)
        priority_v == validate_priority(new_priority)
        normalized_priority == priority_v[2]
    IN  IF IntOverflows(todo_id)
        THEN /\ result' = Raised("update_priority", <<todo_id, new_priority>>, OverflowError)
             /\ UNCHANGED <<todos, next_id, now, held, shared>>
        ELSE IF ~v[1]
        THEN /\ result' = Returned("update_priority", <<todo_id, new_priority>>, <<FALSE, v[3]>>)
             /\ UNCHANGED <<todos, next_id, now, held, shared>>
        ELSE IF i = 0
        THEN /\ result' = Returned("update_priority", <<todo_id, new_priority>>,
                            <<FALSE, NotFoundMsg(parsed_id)>>)
             /\ UNCHANGED <<todos, next_id, now, held, shared>>
        ELSE IF ~priority_v[1]
        THEN /\ result' = Returned("update_priority", <<todo_id, new_priority>>,
                            <<FALSE, priority_v[3]>>)
             /\ UNCHANGED <<todos, next_id, now, held, shared>>
        ELSE /\ todos' = [todos EXCEPT ![i] = SetKey(@, "priority", normalized_priority)]
             /\ result' = Returned("update_priority", <<todo_id, new_priority>>,
                    <<TRUE, <<"Todo ID ", parsed_id, " priority updated to ",
                              normalized_priority, "!">>>>)
             /\ UNCHANGED <<next_id, now, held, shared>>

\* the merge loop of add_tags without its membership test
MergeTagsAppendAll(existing_tags, normalized_tags) == existing_tags \o normalized_tags

\* the merge loop of add_tags: the tags of normalized_tags not yet in
\* existing_tags are appended in their order
RECURSIVE MergeTags(_, _)
MergeTags(existing_tags, normalized_tags) ==
    IF normalized_tags = <<>> THEN existing_tags
    ELSE IF \E k \in 1..Len(existing_tags) : existing_tags[k] = Head(normalized_tags)
    THEN MergeTags(existing_tags, Tail(normalized_tags))
    ELSE MergeTags(Append(existing_tags, Head(normalized_tags)), Tail(normalized_tags))

\* add_tags(todo_id, new_tags) -> (success, message)
add_tags(todo_id, new_tags) ==
    LET v == validate_id(todo_id)
        parsed_id == v[2]
        i == IndexOfId(parsed_id)
        tags_v == validate_tags(new_tags)
        existing_tags == Get(todos[i], "tags", <<>>)
    IN  IF IntOverflows(todo_id)
        THEN /\ result' = Raised("add_tags", <<todo_id, new_tags>>, OverflowError)
             /\ UNCHANGED <<todos, next_id, now, held, shared>>
        ELSE IF ~v[1]
        THEN /\ result' = Returned("add_tags", <<todo_id, new_tags>>, <<FALSE, v[3]>>)
             /\ UNCHANGED <<todos, next_id, now, held, shared>>
        ELSE IF i = 0
        THEN /\ result' = Returned("add_tags", <<todo_id, new_tags>>,
                            <<FALSE, NotFoundMsg(parsed_id)>>)
             /\ UNCHANGED <<todos, next_id, now, held, shared>>
        ELSE IF ~tags_v[1]
        THEN /\ result' = Returned("add_tags", <<todo_id, new_tags>>, <<FALSE, tags_v[3]>>)
             /\ UNCHANGED <<todos, next_id, now, held, shared>>
        ELSE \* the appends are to the list itself: every todo that has it sees them
             /\ todos' = [k \in 1..Len(todos) |->
                            IF todos[k]["id"] \in SharingTags(parsed_id)
                            THEN SetKey(todos[k], "tags", MergeTags(existing_tags, tags_v[2]))
                            ELSE todos[k]]
             /\ result' = Returned("add_tags", <<todo_id, new_tags>>,
                    <<TRUE, <<"Tags added to todo ID ", parsed_id, "!">>>>)
             /\ UNCHANGED <<next_id, now, held, shared>>

\* [tag for tag in existing_tags if tag not in tags_to_remove_set]
RECURSIVE WithoutTags(_, _)
WithoutTags(existing_tags, normalized_tags) ==
    IF existing_tags = <<>> THEN <<>>
    ELSE IF \E k \in 1..Len(normalized_tags) : normalized_tags[k] = Head(existing_tags)
    THEN WithoutTags(Tail(existing_tags), normalized_tags)
    ELSE <<Head(existing_tags)>> \o WithoutTags(Tail(existing_tags), normalized_tags)

\* remove_tags(todo_id, tags_to_remove) -> (success, message)
remove_tags(todo_id, tags_to_remove) ==
    LET v == validate_id(todo_id)
        parsed_id == v[2]
        i == IndexOfId(parsed_id)
        tags_v == validate_tags(tags_to_remove)
        existing_tags == Get(todos[i], "tags", <<>>)
    IN  IF IntOverflows(todo_id)
        THEN /\ result' = Raised("remove_tags", <<todo_id, tags_to_remove>>, OverflowError)
             /\ UNCHANGED <<todos, next_id, now, held, shared>>
        ELSE IF ~v[1]
        THEN /\ result' = Returned("remove_tags", <<todo_id, tags_to_remove>>, <<FALSE, v[3]>>)
             /\ UNCHANGED <<todos, next_id, now, held, shared>>
        ELSE IF i = 0
        THEN /\ result' = Returned("remove_tags", <<todo_id, tags_to_remove>>,
                            <<FALSE, NotFoundMsg(parsed_id)>>)
             /\ UNCHANGED <<todos, next_id, now, held, shared>>
        ELSE IF ~tags_v[1]
        THEN /\ result' = Returned("remove_tags", <<todo_id, tags_to_remove>>, <<FALSE, tags_v[3]>>)
             /\ UNCHANGED <<todos, next_id, now, held, shared>>
        ELSE /\ todos' = [todos EXCEPT ![i] =
                            SetKey(@, "tags", WithoutTags(existing_tags, tags_v[2]))]
             /\ result' = Returned("remove_tags", <<todo_id, tags_to_remove>>,
                    <<TRUE, <<"Tags removed from todo ID ", parsed_id, "!">>>>)
             /\ shared' = Unshared(parsed_id)
             /\ UNCHANGED <<next_id, now, held>>

\* the assignments of set_recurrence keeping the interval it is given
WithRecurrenceKeepsInterval(todo, normalized_pattern, interval) ==
    SetKey(SetKey(SetKey(todo,
        "recurrence_pattern", normalized_pattern),
        "recurrence_interval", interval),
        "next_occurrence", None)

\* the three assignments of set_recurrence to the todo
WithRecurrence(todo, normalized_pattern, interval) ==
    SetKey(SetKey(SetKey(todo,
        "recurrence_pattern", normalized_pattern),
        "recurrence_interval", IF normalized_pattern # None THEN interval ELSE 1),
        "next_occurrence", None)

\* set_recurrence(todo_id, pattern, interval) -> (success, message)
set_recurrence(todo_id, pattern, interval) ==
    LET v == validate_id(todo_id)
        parsed_id == v[2]
        i == IndexOfId(parsed_id)
        pattern_v == validate_recurrence_pattern(pattern)
        normalized_pattern == pattern_v[2]
    IN  IF IntOverflows(todo_id)
        THEN /\ result' = Raised("set_recurrence", <<todo_id, pattern, interval>>, OverflowError)
             /\ UNCHANGED <<todos, next_id, now, held, shared>>
        ELSE IF ~v[1]
        THEN /\ result' = Returned("set_recurrence", <<todo_id, pattern, interval>>,
                            <<FALSE, v[3]>>)
             /\ UNCHANGED <<todos, next_id, now, held, shared>>
        ELSE IF i = 0
        THEN /\ result' = Returned("set_recurrence", <<todo_id, pattern, interval>>,
                            <<FALSE, NotFoundMsg(parsed_id)>>)
             /\ UNCHANGED <<todos, next_id, now, held, shared>>
        ELSE IF ~pattern_v[1]
        THEN /\ result' = Returned("set_recurrence", <<todo_id, pattern, interval>>,
                            <<FALSE, pattern_v[3]>>)
             /\ UNCHANGED <<todos, next_id, now, held, shared>>
        ELSE /\ todos' = [todos EXCEPT ![i] = WithRecurrence(@, normalized_pattern, interval)]
             /\ result' = Returned("set_recurrence", <<todo_id, pattern, interval>>,
                    IF normalized_pattern = None
                    THEN <<TRUE, <<"Todo ID ", parsed_id, " recurrence removed!">>>>
                    ELSE <<TRUE, <<"Todo ID ", parsed_id, " recurrence set to ",
                                   normalized_pattern, "!">>>>)
             /\ UNCHANGED <<next_id, now, held, shared>>

\* a migration that writes the default priority over the one stored
migrate_todo_to_phase2_resets(todo) ==
    LET p == SetKey(todo, "priority", Medium)
        t == IF "tags" \in DOMAIN p THEN p ELSE SetKey(p, "tags", <<>>)
    IN  IF "created_at" \in DOMAIN t THEN t ELSE SetKey(t, "created_at", now)

\* migrate_todo_to_phase2(todo), called at the clock value now
migrate_todo_to_phase2(todo) ==
    LET p == IF "priority" \in DOMAIN todo THEN todo ELSE SetKey(todo, "priority", Medium)
        t == IF "tags" \in DOMAIN p THEN p ELSE SetKey(p, "tags", <<>>)
    IN  IF "created_at" \in DOMAIN t THEN t ELSE SetKey(t, "created_at", now)

\* migrate_todo_to_phase3(todo)
migrate_todo_to_phase3(todo) ==
    LET p == IF "recurrence_pattern" \in DOMAIN todo THEN todo
             ELSE SetKey(todo, "recurrence_pattern", None)
        n == IF "recurrence_interval" \in DOMAIN p THEN p
             ELSE SetKey(p, "recurrence_interval", 1)
    IN  IF "next_occurrence" \in DOMAIN n THEN n ELSE SetKey(n, "next_occurrence", None)

\* sorted(list, key=lambda todo: todo["id"]): stable, ascending
RECURSIVE InsertById(_, _)
InsertById(sorted, todo) ==
    IF sorted = <<>> \/ sorted[Len(sorted)]["id"] <= todo["id"]
    THEN Append(sorted, todo)
    ELSE Append(InsertById(SubSeq(sorted, 1, Len(sorted) - 1), todo), sorted[Len(sorted)])

\* the list newest first
NewestFirst(list) == [k \in 1..Len(list) |-> list[Len(list) + 1 - k]]

RECURSIVE SortedById(_)
SortedById(list) ==
    IF list = <<>> THEN <<>>
    ELSE InsertById(SortedById(SubSeq(list, 1, Len(list) - 1)), list[Len(list)])

\* get_all_todos() -> the migrated todos, sorted by id
get_all_todos ==
    LET migrated == [i \in 1..Len(todos) |->
                        migrate_todo_to_phase3(migrate_todo_to_phase2(todos[i]))]
    IN  /\ todos' = migrated
        /\ result' = Returned("get_all_todos", <<>>, SortedById(migrated))
        \* the store holds new dicts: the caller's variable is assigned anew
        /\ held' = <<>>
        /\ UNCHANGED <<next_id, now, shared>>

\* get_todo_by_id(todo_id) -> the dict of the store with that id, or None
get_todo_by_id(todo_id) ==
    LET v == validate_id(todo_id)
        i == IndexOfId(v[2])
    IN  /\ result' = IF IntOverflows(todo_id)
                     THEN Raised("get_todo_by_id", <<todo_id>>, OverflowError)
                     ELSE Returned("get_todo_by_id", <<todo_id>>,
                                   IF ~v[1] \/ i = 0 THEN None ELSE todos[i])
        /\ held' = <<>>
        /\ UNCHANGED <<todos, next_id, now, shared>>

\* the caller keeps the records its query has just returned: they are the
\* dicts of the store themselves
caller_keeps ==
    /\ result.op \in {"get_all_todos", "search_todos", "get_todo_by_id"}
    /\ result.exc = None
    /\ result.op = "get_todo_by_id" =>
           LET v == validate_id(result.args[1])
           IN  v[1] /\ IndexOfId(v[2]) # 0
    /\ LET records == IF result.op = "get_todo_by_id" THEN <<result.ret>> ELSE result.ret
       IN  held' = [p \in 1..Len(records) |-> Reference(records[p])]
    /\ result' = Returned("caller_keeps", <<>>, None)
    /\ UNCHANGED <<todos, next_id, now, shared>>

\* the caller assigns held[p]["title"] = title
caller_writes(p, title) ==
    /\ p \in 1..Len(held)
    /\ IF held[p].live
       THEN /\ todos' = [todos EXCEPT ![IndexOfId(held[p].id)] = SetKey(@, "title", title)]
            /\ UNCHANGED held
       ELSE /\ held' = [held EXCEPT ![p].kept = SetKey(@, "title", title)]
            /\ UNCHANGED todos
    /\ result' = Returned("caller_writes", <<p, title>>, None)
    /\ UNCHANGED <<next_id, now, shared>>

\* needle in haystack, tried at the start of haystack only
StartsWith(needle, haystack) ==
    Len(needle) <= Len(haystack) /\ SubSeq(haystack, 1, Len(needle)) = needle

\* needle in haystack (str.__contains__)
Contains(needle, haystack) ==
    \E i \in 0..(Len(haystack) - Len(needle)) : SubSeq(haystack, i + 1, i + Len(needle)) = needle

\* search_todos(keyword) -> the todos whose title or description holds the
\* keyword, letter case apart, in the order of get_all_todos()
search_todos(keyword) ==
    LET migrated == [i \in 1..Len(todos) |->
                        migrate_todo_to_phase3(migrate_todo_to_phase2(todos[i]))]
        all == SortedById(migrated)
        keyword_lower == Lower(keyword)
        results == SelectSeq(all, LAMBDA todo :
                       \/ Contains(keyword_lower, Lower(todo["title"]))
                       \/ Contains(keyword_lower, Lower(todo["description"])))
    IN  /\ todos' = migrated
        /\ result' = Returned("search_todos", <<keyword>>,
                        IF keyword = None \/ keyword = <<>> \/ Strip(keyword) = <<>>
                        THEN all ELSE results)
        /\ held' = <<>>
        /\ UNCHANGED <<next_id, now, shared>>

\* filter_by_status(todos, completed) -> the todos of the list with that status
filter_by_status(list, completed) ==
    /\ result' = Returned("filter_by_status", <<list, completed>>,
                    SelectSeq(list, LAMBDA todo : todo["completed"] = completed))
    /\ UNCHANGED <<todos, next_id, now, held, shared>>

\* filter_by_priority(todos, priority) -> the todos of the list with that priority
filter_by_priority(list, priority) ==
    LET priority_lower == Lower(priority)
    IN  /\ result' = Returned("filter_by_priority", <<list, priority>>,
                        SelectSeq(list, LAMBDA todo :
                            Lower(Get(todo, "priority", Medium)) = priority_lower))
        /\ UNCHANGED <<todos, next_id, now, held, shared>>

\* filter_by_tag comparing the tag as it is given
filter_by_tag_as_given(list, tag) ==
    /\ result' = Returned("filter_by_tag", <<list, tag>>,
                    SelectSeq(list, LAMBDA todo :
                        \E k \in 1..Len(Get(todo, "tags", <<>>)) : Get(todo, "tags", <<>>)[k] = tag))
    /\ UNCHANGED <<todos, next_id, now, held, shared>>

\* filter_by_tag(todos, tag) -> the todos of the list that carry the tag
filter_by_tag(list, tag) ==
    LET tag_lower == Lower(tag)
    IN  /\ result' = Returned("filter_by_tag", <<list, tag>>,
                        SelectSeq(list, LAMBDA todo :
                            LET todo_tags == Get(todo, "tags", <<>>)
                            IN  \E k \in 1..Len(todo_tags) : todo_tags[k] = tag_lower))
        /\ UNCHANGED <<todos, next_id, now, held, shared>>

\* the characters of the titles, in the order of their code points
CodePoints == <<" ">> \o Digits \o UpperChars \o LowerChars

\* a < b for two str
RECURSIVE StrLess(_, _)
StrLess(a, b) ==
    IF b = <<>> THEN FALSE
    ELSE IF a = <<>> THEN TRUE
    ELSE IF Head(a) = Head(b) THEN StrLess(Tail(a), Tail(b))
    ELSE IndexOf(CodePoints, Head(a)) < IndexOf(CodePoints, Head(b))

\* a sort that gets the descending order by turning the ascending one around
SortedThenReversed(list, Less(_, _), reverse) ==
    LET n == Len(list)
        Before(j, i) ==
            \/ Less(list[j], list[i])
            \/ ~Less(list[i], list[j]) /\ ~Less(list[j], list[i]) /\ j < i
        ascending == [p \in 1..n |->
                         list[CHOOSE i \in 1..n : Cardinality({j \in 1..n : Before(j, i)}) = p - 1]]
    IN  IF reverse THEN [p \in 1..n |-> ascending[n + 1 - p]] ELSE ascending

\* sorted(list, key=..., reverse=reverse), Less comparing the keys of two
\* elements: elements with equal keys keep their order, reversed or not
Sorted(list, Less(_, _), reverse) ==
    LET n == Len(list)
        Before(j, i) ==
            \/ (IF reverse THEN Less(list[i], list[j]) ELSE Less(list[j], list[i]))
            \/ ~Less(list[i], list[j]) /\ ~Less(list[j], list[i]) /\ j < i
    IN  [p \in 1..n |->
            list[CHOOSE i \in 1..n : Cardinality({j \in 1..n : Before(j, i)}) = p - 1]]

\* priority_rank of sort_by_priority, 2 for a priority it does not know
PriorityRank(todo) ==
    LET priority == Get(todo, "priority", Medium)
    IN  IF priority = High THEN 1 ELSE IF priority = Low THEN 3 ELSE 2

\* sort_by_title(todos, ascending)
sort_by_title(list, ascending) ==
    /\ result' = Returned("sort_by_title", <<list, ascending>>,
                    Sorted(list, LAMBDA x, y : StrLess(Lower(x["title"]), Lower(y["title"])),
                           ~ascending))
    /\ UNCHANGED <<todos, next_id, now, held, shared>>

\* sort_by_priority turning the High-first order around for the other one
sort_by_priority_turned(list, high_first) ==
    /\ result' = Returned("sort_by_priority", <<list, high_first>>,
                    SortedThenReversed(list, LAMBDA x, y : PriorityRank(x) < PriorityRank(y),
                                       ~high_first))
    /\ UNCHANGED <<todos, next_id, now, held, shared>>

\* sort_by_priority(todos, high_first)
sort_by_priority(list, high_first) ==
    /\ result' = Returned("sort_by_priority", <<list, high_first>>,
                    Sorted(list, LAMBDA x, y : PriorityRank(x) < PriorityRank(y), ~high_first))
    /\ UNCHANGED <<todos, next_id, now, held, shared>>

\* sort_by_created_date(todos, newest_first)
sort_by_created_date(list, newest_first) ==
    /\ result' = Returned("sort_by_created_date", <<list, newest_first>>,
                    Sorted(list, LAMBDA x, y : DateLess(x["created_at"], y["created_at"]),
                           newest_first))
    /\ UNCHANGED <<todos, next_id, now, held, shared>>

\* sort_by_status(todos, incomplete_first): False sorts before True
sort_by_status(list, incomplete_first) ==
    /\ result' = Returned("sort_by_status", <<list, incomplete_first>>,
                    Sorted(list, LAMBDA x, y : ~x["completed"] /\ y["completed"],
                           ~incomplete_first))
    /\ UNCHANGED <<todos, next_id, now, held, shared>>

\* a call of validate_tags(tags) from outside the store
validate_tags_call(tags) ==
    /\ result' = Returned("validate_tags", <<tags>>, validate_tags(tags))
    /\ UNCHANGED <<todos, next_id, now, held, shared>>

\* a call of validate_id(id_value) from outside the store
validate_id_call(id_value) ==
    /\ result' = IF IntOverflows(id_value)
                 THEN Raised("validate_id", <<id_value>>, OverflowError)
                 ELSE Returned("validate_id", <<id_value>>, validate_id(id_value))
    /\ UNCHANGED <<todos, next_id, now, held, shared>>

-----------------------------------------------------------------------------
(* Inputs of the calls                                                     *)

LongTitle == Rep("a", MAX_TITLE + 1)
LongDescription == Rep("d", MAX_DESCRIPTION + 1)
LongTag == Rep("t", MAX_TAG + 1)

\* the longest title and the longest description the validators accept
FullTitle == Rep("a", MAX_TITLE)
FullDescription == Rep("d", MAX_DESCRIPTION)

\* an interval no date arithmetic survives
HugeInterval == 4000000

\* ids as the callers pass them: zero and the text of 1
FewIds == {IntVal(0), StrVal(<<" ", "1">>)}

\* the ids the lifecycle calls draw: those of FewIds on a collection that
\* started empty, zero alone on one that started loaded, and the ids handed
\* out since the initial state
IdInputs ==
    (IF Loaded THEN {IntVal(0)} ELSE FewIds)
        \cup {IntVal(n) : n \in (IF Loaded THEN Preload + 1 ELSE 2)..(next_id - 1)}

\* the ids delete_todo draws: on a collection that started loaded also the
\* last id of the initial collection
DeleteIds == IdInputs \cup (IF Loaded THEN {IntVal(Preload)} ELSE {})

\* ids that are no positive integer, and one that no todo ever has
OddIds ==
    {StrVal(<<"a","b","c">>), StrVal(<<>>), StrVal(<<"-","1">>), IntVal(-1), NoneVal,
     FloatInf, IntVal(MAX_TODOS - 1)}

\* the ids that the calls changing a field draw
FieldIds(in) == IF in.field_ids = "all" THEN IdInputs ELSE FewIds

StrDaily == <<"d","a","i","l","y">>
StrWeekly == <<"W","E","E","K","L","Y">>
StrMonthly == <<" ","M","o","n","t","h","l","y">>
StrNone == <<"n","o","n","e">>
StrYearly == <<"y","e","a","r","l","y">>
StrHigh == <<" ","H","I","G","H">>
StrUrgent == <<"u","r","g","e","n","t">>
StrWork == <<"W","o","r","k",","," ","w","o","r","k">>
StrLow == <<"l","o","w">>
DottedTag == Rep(DottedI, MAX_TAG)
HomeWorkDotted == <<<<" ","H","o","m","e">>, <<"w","o","r","k">>, DottedTag>>

\* the inputs that every specification draws: each call with arguments that
\* fail validation, and the calls that take no field value
BaseInputs ==
    [field_ids |-> "few",
     adds |-> {<<<<"a">>, None>>, <<LongTitle, None>>, <<<<"a">>, LongDescription>>},
     updates |-> {<<<<>>, None>>},
     priorities |-> {StrUrgent},
     tags |-> {ListVal(<<LongTag>>)},
     recurrences |-> {<<StrYearly, 1>>, <<StrNone, 2>>}]

\* Spec: the recurrence inputs in full
LifecycleInputs ==
    [BaseInputs EXCEPT
        !.recurrences = @ \cup {<<StrDaily, HugeInterval>>, <<StrWeekly, 0>>, <<StrMonthly, 1>>}]

\* SpecUpdate: the update_todo inputs in full
UpdateInputs ==
    [BaseInputs EXCEPT
        !.field_ids = "all",
        !.updates = @ \cup {<<None, None>>, <<<<"b">>, None>>, <<None, <<"c">>>>,
                            <<<<"b">>, LongDescription>>, <<LongTitle, <<"c">>>>}]

\* SpecTags: the tag inputs in full, one todo title and one pattern
TagInputs ==
    [BaseInputs EXCEPT
        !.adds = {<<<<"a">>, None>>},
        !.tags = @ \cup {StrVal(StrWork), ListVal(HomeWorkDotted)},
        !.recurrences = {<<StrMonthly, 1>>}]

\* SpecPriority: the priority and pattern inputs in full, one todo title
PriorityInputs ==
    [BaseInputs EXCEPT
        !.adds = {<<<<"a">>, None>>},
        !.priorities = @ \cup {StrHigh, StrLow},
        !.recurrences = @ \cup {<<StrMonthly, 1>>, <<StrWeekly, 2>>}]

\* SpecBounds: titles and descriptions at and around their limits
BoundsInputs ==
    [BaseInputs EXCEPT
        !.field_ids = "all",
        !.adds = @ \cup {<<FullTitle, FullDescription>>, <<<<" ", "\t">>, None>>, <<None, None>>},
        !.updates = @ \cup {<<FullTitle, None>>, <<None, FullDescription>>, <<LongTitle, None>>,
                            <<<<" ">>, <<"c">>>>, <<<<" ", "b">>, LongDescription>>}]

\* SpecDelete: one title, one pattern that is refused and one that recurs
DeleteInputs ==
    [BaseInputs EXCEPT
        !.adds = {<<<<"a">>, None>>},
        !.recurrences = {<<StrYearly, 1>>, <<StrMonthly, 1>>}]

\* SpecLegacy: one valid priority, tag list and pattern besides the invalid
LegacyInputs ==
    [BaseInputs EXCEPT
        !.adds = {<<<<"a">>, None>>},
        !.priorities = @ \cup {StrLow},
        !.tags = @ \cup {StrVal(StrWork)},
        !.recurrences = {<<StrYearly, 1>>, <<StrMonthly, 1>>}]

\* SpecIds: one title, and field values that fail validation
AddressInputs == [BaseInputs EXCEPT !.adds = {<<<<"a">>, None>>}]

\* SpecRecur: every form of pattern set_recurrence tells apart
RecurInputs ==
    [BaseInputs EXCEPT
        !.adds = {<<<<"a">>, None>>},
        !.recurrences = @ \cup {<<None, 3>>, <<<<" ">>, 3>>, <<StrDaily, 1>>,
                                 <<StrWeekly, 2>>, <<StrMonthly, 1>>}]

\* SpecDates: intervals that cross a month end, a year end and a leap day
DateInputs ==
    [BaseInputs EXCEPT
        !.adds = {<<<<"a">>, None>>},
        !.recurrences = {<<StrDaily, 1>>, <<StrDaily, 30>>, <<StrWeekly, 2>>,
                         <<StrMonthly, 1>>, <<StrMonthly, 13>>}]

\* the dates datetime.now() returns: a month end, a leap day, a year end, a plain day
Dates == {<<2025, 1, 31>>, <<2024, 2, 29>>, <<2025, 12, 31>>, <<2025, 3, 15>>}

\* the longest text, and the longest list, that a validator is given
MaxText == 3
MaxPieces == 2

\* all the texts of up to n characters of alphabet
Texts(alphabet, n) == UNION {[1..k -> alphabet] : k \in 0..n}

\* validate_tags: None, every short text of letters, commas and blanks, every
\* short list of pieces, and a valid piece followed by one too long
TagPieces ==
    {<<>>, <<" ","a">>, <<"A">>, <<"b"," ">>, LongTag, Rep("t", MAX_TAG), DottedTag}

TagArguments ==
    {NoneVal, StrVal(<<"a",",">> \o LongTag), StrVal(<<"a",","," ">> \o Rep("T", MAX_TAG))}
        \cup {StrVal(t) : t \in Texts({"b", "B", ",", " "}, MaxText)}
        \cup {ListVal(l) : l \in Texts(TagPieces, MaxPieces)}

\* validate_id: integers, every short text of digits, signs, letters and
\* points, one with blanks, None, and floats
IdArguments ==
    {NoneVal, FloatInf, FloatNaN, StrVal(<<" ", "1", "0", " ">>)}
        \cup {IntVal(n) : n \in -2..3}
        \cup {StrVal(t) : t \in Texts({"1", "0", "-", "a", "."}, MaxText)}
        \cup {FloatVal(t) : t \in {-15, 0, 5, 10, 15, 20}}

\* SpecSearch: titles and descriptions that share letters in either case,
\* and keywords that are absent, blank, in one of them, in both, in none
SearchInputs ==
    [adds |-> {<<<<"A","b">>, None>>, <<<<"b","c">>, <<"a","B","c">>>>, <<<<"x">>, <<"c"," ","d">>>>},
     keywords |-> {None, <<>>, <<" ">>, <<"a","B">>, <<"B">>, <<"C"," ">>, <<"z">>}]

\* SpecViews: five stored todos that share titles letter case apart,
\* priorities, creation days, status and tags
SampleTodo(id, title, completed, priority, tags, created_at) ==
    [id |-> id, title |-> title, description |-> <<>>, completed |-> completed,
     priority |-> priority, tags |-> tags, created_at |-> created_at,
     recurrence_pattern |-> None, recurrence_interval |-> 1, next_occurrence |-> None]

TagWork == <<"w","o","r","k">>
TagHome == <<"h","o","m","e">>

Samples ==
    <<SampleTodo(1, <<"b">>, FALSE, Medium, <<>>, <<2025, 1, 2>>),
      SampleTodo(2, <<"A">>, TRUE, High, <<TagWork>>, <<2025, 1, 1>>),
      SampleTodo(3, <<"a">>, FALSE, High, <<TagWork, TagHome>>, <<2025, 1, 2>>),
      SampleTodo(4, <<"B","a">>, TRUE, Low, <<TagHome>>, <<2025, 1, 3>>),
      SampleTodo(5, <<"a","b">>, FALSE, Medium, <<>>, <<2025, 1, 1>>)>>

\* the stores that hold some of the samples
SampleStores ==
    {SelectSeq(Samples, LAMBDA todo : todo["id"] \in ids) : ids \in SUBSET (1..Len(Samples))}

Reversed(list) == [p \in 1..Len(list) |-> list[Len(list) + 1 - p]]

\* the lists a filter or a sort is given: the stored todos as fetched, or
\* as an earlier sort left them
Fetched == {todos, Reversed(todos)}

ViewInputs ==
    [priorities |-> {<<"h","i","g","h">>, <<"M","E","D","I","U","M">>, Low},
     tags |-> {<<"W","o","r","k">>, TagHome, <<"x">>}]

\* SpecSpawn: a daily recurrence, and a tag added to or removed from any todo
SpawnInputs ==
    [BaseInputs EXCEPT
        !.adds = {<<<<"a">>, None>>},
        !.tags = {ListVal(<<TagHome>>)},
        !.recurrences = {<<StrDaily, 1>>}]

\* SpecSnapshots: one valid input of each call that changes a stored todo
SnapshotInputs ==
    [BaseInputs EXCEPT
        !.adds = {<<<<"a">>, None>>},
        !.updates = {<<<<"b">>, None>>},
        !.priorities = {StrHigh},
        !.tags = {ListVal(<<TagHome>>)},
        !.recurrences = {<<StrWeekly, 2>>}]

\* SpecLoaded: one valid and one invalid input of each call
LoadedInputs ==
    [BaseInputs EXCEPT
        !.adds = {<<<<"a">>, None>>, <<LongTitle, None>>},
        !.recurrences = {<<StrYearly, 1>>, <<StrMonthly, 1>>}]

-----------------------------------------------------------------------------
(* Specifications                                                          *)

NoResult == [op |-> "", args |-> <<>>, ret |-> None, exc |-> None]

Clock == {<<2025, 1, 31>>}

\* a fresh process: empty collection, counter 1
Init ==
    /\ todos = <<>>
    /\ next_id = 1
    /\ now \in Clock
    /\ result = NoResult
    /\ held = <<>>
    /\ shared = {}

\* one call that can change the collection or a recurrence, with arguments
\* drawn from in
Lifecycle(in) ==
    \/ \E a \in in.adds : add_todo(a[1], a[2])
    \/ \E todo_id \in IdInputs : mark_complete(todo_id)
    \/ \E todo_id \in IdInputs : mark_incomplete(todo_id)
    \/ \E todo_id \in DeleteIds : delete_todo(todo_id)
    \/ \E todo_id \in IdInputs, r \in in.recurrences : set_recurrence(todo_id, r[1], r[2])

\* one call of the storage layer, with arguments drawn from in
Calls(in) ==
    \/ \E a \in in.adds : add_todo(a[1], a[2])
    \/ get_all_todos
    \/ \E todo_id \in IdInputs : mark_complete(todo_id)
    \/ \E todo_id \in IdInputs : mark_incomplete(todo_id)
    \/ \E todo_id \in FieldIds(in), u \in in.updates : update_todo(todo_id, u[1], u[2])
    \/ \E todo_id \in DeleteIds : delete_todo(todo_id)
    \/ \E todo_id \in FieldIds(in), new_priority \in in.priorities :
           update_priority(todo_id, new_priority)
    \/ \E todo_id \in FieldIds(in), new_tags \in in.tags : add_tags(todo_id, new_tags)
    \/ \E todo_id \in FieldIds(in), tags_to_remove \in in.tags :
           remove_tags(todo_id, tags_to_remove)
    \/ \E todo_id \in IdInputs, r \in in.recurrences : set_recurrence(todo_id, r[1], r[2])

Next == Calls(LifecycleInputs)

\* every call; the arguments that pass validation are those of the recurrence
Spec == Init /\ [][Next]_vars

NextUpdate == Calls(UpdateInputs)

\* every call; the arguments that pass validation are those of update_todo
SpecUpdate == Init /\ [][NextUpdate]_vars

\* one call that can change the tags of a todo or copy them to a new one
Tagging(in) ==
    \/ \E a \in in.adds : add_todo(a[1], a[2])
    \/ \E todo_id \in IdInputs : mark_complete(todo_id)
    \/ \E todo_id \in FieldIds(in), new_tags \in in.tags : add_tags(todo_id, new_tags)
    \/ \E todo_id \in FieldIds(in), tags_to_remove \in in.tags :
           remove_tags(todo_id, tags_to_remove)
    \/ \E todo_id \in FieldIds(in), r \in in.recurrences : set_recurrence(todo_id, r[1], r[2])

NextTags == Tagging(TagInputs)

\* the calls that write or copy tags, from a fresh process
SpecTags == Init /\ [][NextTags]_vars

\* one call that can change the priority or the pattern of a todo or copy
\* them to a new one
Prioritising(in) ==
    \/ \E a \in in.adds : add_todo(a[1], a[2])
    \/ \E todo_id \in IdInputs : mark_complete(todo_id)
    \/ \E todo_id \in FieldIds(in), new_priority \in in.priorities :
           update_priority(todo_id, new_priority)
    \/ \E todo_id \in FieldIds(in), r \in in.recurrences : set_recurrence(todo_id, r[1], r[2])

NextPriority == Prioritising(PriorityInputs)

\* the calls that write or copy a priority or a pattern, from a fresh process
SpecPriority == Init /\ [][NextPriority]_vars

\* one call that writes a title or a description
Editing(in) ==
    \/ \E a \in in.adds : add_todo(a[1], a[2])
    \/ \E todo_id \in FieldIds(in), u \in in.updates : update_todo(todo_id, u[1], u[2])

NextBounds == Editing(BoundsInputs)

\* the calls that write a title or a description, from a fresh process
SpecBounds == Init /\ [][NextBounds]_vars

NextDelete == Lifecycle(DeleteInputs)

\* the calls that add, complete and delete todos, from a fresh process
SpecDelete == Init /\ [][NextDelete]_vars

\* one call that adds, completes, deletes or lists todos
Listing(in) ==
    \/ \E a \in in.adds : add_todo(a[1], a[2])
    \/ get_all_todos
    \/ \E todo_id \in IdInputs : mark_complete(todo_id)
    \/ \E todo_id \in IdInputs : mark_incomplete(todo_id)
    \/ \E todo_id \in DeleteIds : delete_todo(todo_id)
    \/ \E todo_id \in IdInputs, r \in in.recurrences : set_recurrence(todo_id, r[1], r[2])

NextList == Listing(DeleteInputs)

\* the calls that add, complete, delete and list todos, from a fresh process
SpecList == Init /\ [][NextList]_vars

\* records as the earlier schemas stored them: the first without priority,
\* tags, created_at and the recurrence fields, the second without the
\* recurrence fields, the third complete
Phase1Todo == [id |-> 1, title |-> <<"a">>, description |-> <<"m">>, completed |-> FALSE]

Phase2Todo ==
    [id |-> 1, title |-> <<"a">>, description |-> <<"m">>, completed |-> TRUE,
     priority |-> High, tags |-> <<<<"h","e","a","l","t","h">>>>, created_at |-> <<2024, 12, 31>>]

Phase3Todo ==
    [id |-> 1, title |-> <<"a">>, description |-> <<"m">>, completed |-> FALSE,
     priority |-> High, tags |-> <<<<"h","e","a","l","t","h">>>>, created_at |-> <<2025, 1, 1>>,
     recurrence_pattern |-> Daily, recurrence_interval |-> 1,
     next_occurrence |-> <<2025, 1, 2>>]

\* a collection holding one record of an earlier schema
InitLegacy ==
    /\ now \in Clock
    /\ todos \in {<<Phase1Todo>>, <<Phase2Todo>>, <<Phase3Todo>>}
    /\ next_id = 2
    /\ result = NoResult
    /\ held = <<>>
    /\ shared = {}

\* one call that lists the todos, or reads and writes a field that a record
\* of an earlier schema may lack
Migrating(in) ==
    \/ get_all_todos
    \/ \E todo_id \in FieldIds(in) : mark_complete(todo_id)
    \/ \E todo_id \in FieldIds(in), new_priority \in in.priorities :
           update_priority(todo_id, new_priority)
    \/ \E todo_id \in FieldIds(in), new_tags \in in.tags : add_tags(todo_id, new_tags)
    \/ \E todo_id \in FieldIds(in), r \in in.recurrences : set_recurrence(todo_id, r[1], r[2])

NextLegacy == Migrating(LegacyInputs)

\* the calls that list the todos or touch the later fields, over a record of
\* an earlier schema
SpecLegacy == InitLegacy /\ [][NextLegacy]_vars

\* add_todo, or one call of an operation that takes an id, with an id that
\* is well-formed or not, stored or not
Addressing(in) ==
    \/ \E a \in in.adds : add_todo(a[1], a[2])
    \/ \E todo_id \in IdInputs \cup OddIds : mark_complete(todo_id)
    \/ \E todo_id \in IdInputs \cup OddIds : mark_incomplete(todo_id)
    \/ \E todo_id \in IdInputs \cup OddIds, u \in in.updates : update_todo(todo_id, u[1], u[2])
    \/ \E todo_id \in IdInputs \cup OddIds : delete_todo(todo_id)
    \/ \E todo_id \in IdInputs \cup OddIds, new_priority \in in.priorities :
           update_priority(todo_id, new_priority)
    \/ \E todo_id \in IdInputs \cup OddIds, new_tags \in in.tags : add_tags(todo_id, new_tags)
    \/ \E todo_id \in IdInputs \cup OddIds, tags_to_remove \in in.tags :
           remove_tags(todo_id, tags_to_remove)
    \/ \E todo_id \in IdInputs \cup OddIds, r \in in.recurrences :
           set_recurrence(todo_id, r[1], r[2])

NextIds == Addressing(AddressInputs)

\* the operations that take an id, from a fresh process
SpecIds == Init /\ [][NextIds]_vars

\* add_todo, mark_complete or set_recurrence
Recurring(in) ==
    \/ \E a \in in.adds : add_todo(a[1], a[2])
    \/ \E todo_id \in IdInputs : mark_complete(todo_id)
    \/ \E todo_id \in FieldIds(in), r \in in.recurrences : set_recurrence(todo_id, r[1], r[2])

NextRecur == Recurring(RecurInputs)

\* the calls that set and use the recurrence of a todo, from a fresh process
SpecRecur == Init /\ [][NextRecur]_vars

NextDates == Recurring(DateInputs)

InitDates ==
    /\ todos = <<>>
    /\ next_id = 1
    /\ now \in Dates
    /\ result = NoResult
    /\ held = <<>>
    /\ shared = {}

\* the same calls on a day of Dates
SpecDates == InitDates /\ [][NextDates]_vars

\* a call of validate_tags
ValidatingTags == \E tags \in TagArguments : validate_tags_call(tags)

\* validate_tags, called on its own
SpecTagValidator == Init /\ [][ValidatingTags]_vars

\* a call of validate_id
ValidatingIds == \E id_value \in IdArguments : validate_id_call(id_value)

\* validate_id, called on its own
SpecIdValidator == Init /\ [][ValidatingIds]_vars

\* add_todo, delete_todo or search_todos
Searching(in) ==
    \/ \E a \in in.adds : add_todo(a[1], a[2])
    \/ \E todo_id \in DeleteIds : delete_todo(todo_id)
    \/ \E keyword \in in.keywords : search_todos(keyword)

NextSearch == Searching(SearchInputs)

\* searching a store that grows and shrinks, from a fresh process
SpecSearch == Init /\ [][NextSearch]_vars

\* a filter or a sort over a fetched list
Viewing(in) ==
    \/ \E list \in Fetched, completed \in BOOLEAN : filter_by_status(list, completed)
    \/ \E list \in Fetched, priority \in in.priorities : filter_by_priority(list, priority)
    \/ \E list \in Fetched, tag \in in.tags : filter_by_tag(list, tag)
    \/ \E list \in Fetched, ascending \in BOOLEAN : sort_by_title(list, ascending)
    \/ \E list \in Fetched, high_first \in BOOLEAN : sort_by_priority(list, high_first)
    \/ \E list \in Fetched, newest_first \in BOOLEAN : sort_by_created_date(list, newest_first)
    \/ \E list \in Fetched, incomplete_first \in BOOLEAN : sort_by_status(list, incomplete_first)

NextViews == Viewing(ViewInputs)

InitViews ==
    /\ todos \in SampleStores
    /\ next_id = Len(Samples) + 1
    /\ now \in Clock
    /\ result = NoResult
    /\ held = <<>>
    /\ shared = {}

\* the filters and sorts over a store of samples
SpecViews == InitViews /\ [][NextViews]_vars

\* add_todo, the first todo made to recur and completed, and tags added to
\* or removed from it or its next instances
Spawning(in) ==
    \/ \E a \in in.adds : add_todo(a[1], a[2])
    \/ \E todo_id \in FieldIds(in) : mark_complete(todo_id)
    \/ \E todo_id \in IdInputs, new_tags \in in.tags : add_tags(todo_id, new_tags)
    \/ \E todo_id \in IdInputs, tags_to_remove \in in.tags : remove_tags(todo_id, tags_to_remove)
    \/ \E todo_id \in FieldIds(in), r \in in.recurrences : set_recurrence(todo_id, r[1], r[2])

NextSpawn == Spawning(SpawnInputs)

\* the calls that write or copy tags, on the todo completed and on its next instance
SpecSpawn == Init /\ [][NextSpawn]_vars

\* a query, the caller keeping or writing the records it returned, or a
\* call that changes a stored todo
Snapshots(in) ==
    \/ \E a \in in.adds : add_todo(a[1], a[2])
    \/ get_all_todos
    \/ \E todo_id \in FieldIds(in) : get_todo_by_id(todo_id)
    \/ \E keyword \in {<<"a">>} : search_todos(keyword)
    \/ caller_keeps
    \/ \E p \in 1..MaxNew, title \in {<<>>} : caller_writes(p, title)
    \/ \E todo_id \in FieldIds(in) : mark_complete(todo_id)
    \/ \E todo_id \in FieldIds(in), u \in in.updates : update_todo(todo_id, u[1], u[2])
    \/ \E todo_id \in FieldIds(in) : delete_todo(todo_id)
    \/ \E todo_id \in FieldIds(in), new_priority \in in.priorities :
           update_priority(todo_id, new_priority)
    \/ \E todo_id \in FieldIds(in), new_tags \in in.tags : add_tags(todo_id, new_tags)
    \/ \E todo_id \in FieldIds(in), r \in in.recurrences : set_recurrence(todo_id, r[1], r[2])

NextSnapshots == Snapshots(SnapshotInputs)

\* the store and a caller that keeps what its queries return
SpecSnapshots == Init /\ [][NextSnapshots]_vars

\* a store that Preload calls add_todo("a", None) have loaded
InitLoaded ==
    /\ now \in Clock
    /\ todos = [i \in 1..Preload |-> create_todo(i, <<"a">>, None, Medium, NoneVal, None, 1)]
    /\ next_id = Preload + 1
    /\ result = Returned("add_todo", <<<<"a">>, None>>,
           <<TRUE, Preload, <<"Todo added successfully! (ID: ", Preload, ")">>>>)
    /\ held = <<>>
    /\ shared = {}

NextLoaded == Lifecycle(LoadedInputs)

\* the calls that change the size of the collection, at the capacity ceiling
SpecLoaded == InitLoaded /\ [][NextLoaded]_vars

-----------------------------------------------------------------------------
(* Properties                                                               *)

Ids(list) == {list[i]["id"] : i \in 1..Len(list)}

\* the call r returned its (success, ..., message) tuple
Returns(r) == r.op \notin {"", "get_all_todos"} /\ r.exc = None
Succeeded(r) == Returns(r) /\ r.ret[1]
Failed(r) == Returns(r) /\ ~r.ret[1]
Message(r) == r.ret[Len(r.ret)]

\* the index in list of the todo whose id the call r passed, 0 when the id is
\* invalid or names no todo of list
TargetOf(list, r) ==
    LET v == validate_id(r.args[1])
    IN  IF v[1] /\ \E i \in 1..Len(list) : list[i]["id"] = v[2]
        THEN CHOOSE i \in 1..Len(list) : list[i]["id"] = v[2]
        ELSE 0

\* C1 (part): the ids of the stored todos are pairwise distinct and each is
\* below the counter.
C1Ids ==
    /\ \A i, j \in 1..Len(todos) : i # j => todos[i]["id"] # todos[j]["id"]
    /\ \A i \in 1..Len(todos) : todos[i]["id"] < next_id

\* C1 (part): no call decreases the counter, and an id that a call adds to
\* the collection is not below the counter as it was before the call, so it
\* was never handed out.
C1Step ==
    /\ next_id' >= next_id
    /\ \A j \in 1..Len(todos') :
           todos'[j]["id"] \notin Ids(todos) => todos'[j]["id"] >= next_id

\* C1: in every reachable state the stored ids are pairwise distinct and below
\* the counter, the counter never decreases and an id once assigned is never
\* assigned again, also after its todo has been deleted.
C1IdsNeverReused == []C1Ids /\ [][C1Step]_vars

\* add, delete(1), add: the second add was given id 2
C1Witness ==
    /\ result.op = "add_todo"
    /\ Succeeded(result)
    /\ result.ret[2] = 2
    /\ Ids(todos) = {2}

\* C2: the collection never holds more than 1000 todos.
C2AtMostMax == Len(todos) <= MAX_TODOS

C3Ops ==
    {"add_todo", "delete_todo", "mark_complete", "mark_incomplete",
     "update_priority", "add_tags", "remove_tags", "set_recurrence"}

\* C3: a call of add, delete, setCompleted, updatePriority, addTags,
\* removeTags or setRecurrence that returns failure leaves every todo and the
\* counter as they were.
C3FailureLeavesStore ==
    [][(result'.op \in C3Ops /\ Failed(result'))
          => (todos' = todos /\ next_id' = next_id)]_vars

\* update_priority(1, "urgent") failed on a stored todo
C3Witness ==
    /\ result.op = "update_priority"
    /\ Failed(result)
    /\ Message(result) = ERR_PRIORITY
    /\ TargetOf(todos, result) # 0

\* C4: an update that returns failure has changed neither the title nor the
\* description of any todo.
C4UpdateAtomic ==
    [][(result'.op = "update_todo" /\ Failed(result'))
          => /\ Len(todos') = Len(todos)
             /\ \A i \in 1..Len(todos) :
                    /\ todos'[i]["title"] = todos[i]["title"]
                    /\ todos'[i]["description"] = todos[i]["description"]]_vars

\* C5: no call of the store raises: every call returns its result tuple.
C5NeverRaises == result.exc = None

\* C6: setCompleted(id, true) on a recurring todo that is already completed
\* creates no todo and leaves the size of the collection and the counter
\* unchanged.
C6SpawnOnlyOnTransition ==
    [][\A i \in 1..Len(todos) :
          (/\ result'.op = "mark_complete"
           /\ TargetOf(todos, result') = i
           /\ todos[i]["completed"]
           /\ Recurs(todos[i]))
          => (Len(todos') = Len(todos) /\ next_id' = next_id)]_vars

\* the todo that a completion of original appended: a copy with the id new_id
IsNextInstanceOf(new, original, new_id) ==
    /\ new["id"] = new_id
    /\ ~new["completed"]
    /\ new["next_occurrence"] # None
    /\ \A k \in {"title", "description", "priority", "tags",
                 "recurrence_pattern", "recurrence_interval"} : new[k] = original[k]

\* C7: completing a not yet completed todo with a pattern appends exactly one
\* todo, a copy of the original with the id the counter had, not completed
\* and with next_occurrence set; the counter grows by one, the message names
\* the new id and the original changes in completed only. Completing a todo
\* without a pattern appends nothing and leaves the counter.
C7CompletionSpawnsOne ==
    [][\A i \in 1..Len(todos) :
          (/\ result'.op = "mark_complete"
           /\ TargetOf(todos, result') = i
           /\ ~todos[i]["completed"])
          => IF Recurs(todos[i])
             THEN /\ Succeeded(result')
                  /\ Len(todos') = Len(todos) + 1
                  /\ next_id' = next_id + 1
                  /\ IsNextInstanceOf(todos'[Len(todos')], todos[i], next_id)
                  /\ Message(result')[4] = next_id
                  /\ \A j \in 1..Len(todos) :
                         todos'[j] = IF j = i THEN [todos[i] EXCEPT !["completed"] = TRUE]
                                     ELSE todos[j]
             ELSE /\ Succeeded(result')
                  /\ Len(todos') = Len(todos)
                  /\ next_id' = next_id]_vars

\* C8 (part): setCompleted on a stored todo succeeds and leaves completed at
\* the value asked for.
C8Succeeds ==
    \A i \in 1..Len(todos) :
        (/\ result'.op \in {"mark_complete", "mark_incomplete"}
         /\ TargetOf(todos, result') = i)
        => /\ Succeeded(result')
           /\ todos'[i]["completed"] = (result'.op = "mark_complete")

\* C8 (part): the second of two successive equal setCompleted calls on a todo
\* without a pattern changes nothing and returns the same message.
C8SecondChangesNothing ==
    \A i \in 1..Len(todos) :
        (/\ result'.op \in {"mark_complete", "mark_incomplete"}
         /\ result.op = result'.op
         /\ result.args = result'.args
         /\ Succeeded(result)
         /\ TargetOf(todos, result') = i
         /\ ~Recurs(todos[i]))
        => (todos' = todos /\ Succeeded(result') /\ result'.ret = result.ret)

\* C8: two successive setCompleted(id, true) calls on a stored todo both
\* succeed and leave it completed, two successive setCompleted(id, false)
\* calls both succeed and leave it not completed, and for a todo without a
\* pattern the second call changes nothing and returns the same message.
C8CompletionIdempotent == [][C8Succeeds /\ C8SecondChangesNothing]_vars

\* C9: the recurrence_interval of every stored todo is at least 1.
C9IntervalPositive ==
    \A i \in 1..Len(todos) : Get(todos[i], "recurrence_interval", 1) >= 1

\* C10: add on a collection of 1000 todos or more fails with the capacity
\* message whatever its arguments, returns no id and changes neither the
\* collection nor the counter; on a smaller collection add with a valid title
\* and description succeeds and stores one todo.
C10CapacityBeforeValidation ==
    [][result'.op = "add_todo"
          => IF Len(todos) >= MAX_TODOS
             THEN /\ Failed(result')
                  /\ result'.ret[2] = None
                  /\ Message(result') = ERR_CAPACITY
                  /\ todos' = todos
                  /\ next_id' = next_id
             ELSE (validate_title(result'.args[1])[1]
                       /\ validate_description(result'.args[2])[1])
                  => (Succeeded(result') /\ Len(todos') = Len(todos) + 1)]_vars

\* add with a title of 201 characters on a full collection: the capacity
\* message, not the title message
C10Witness ==
    /\ result.op = "add_todo"
    /\ result.args[1] = LongTitle
    /\ Failed(result)
    /\ Message(result) = ERR_CAPACITY
    /\ Len(todos) = MAX_TODOS

\* a todo was deleted from the full collection and the next add succeeded
C10WitnessAfterDelete ==
    /\ result.op = "add_todo"
    /\ Succeeded(result)
    /\ Len(todos) = MAX_TODOS
    /\ Preload + 1 \notin Ids(todos)

\* C11: every tag of every stored todo is non-empty, trimmed, lowercase and of
\* at most 20 characters, and no two tags of one todo are equal.
C11TagsCanonical ==
    \A i \in 1..Len(todos) :
        LET tags == Get(todos[i], "tags", <<>>)
        IN  \A k \in 1..Len(tags) :
                /\ tags[k] # <<>>
                /\ Strip(tags[k]) = tags[k]
                /\ Lower(tags[k]) = tags[k]
                /\ Len(tags[k]) <= MAX_TAG
                /\ \A h \in 1..Len(tags) : h # k => tags[h] # tags[k]

\* C12: the priority of every stored todo is exactly High, Medium or Low and
\* its recurrence_pattern is None or exactly Daily, Weekly or Monthly,
\* whatever case or surrounding whitespace the callers wrote.
C12Canonical ==
    \A i \in 1..Len(todos) :
        /\ Get(todos[i], "priority", Medium) \in {High, Medium, Low}
        /\ Get(todos[i], "recurrence_pattern", None) \in {None, Daily, Weekly, Monthly}

\* update_priority(" 1", " HIGH") succeeded on a todo whose pattern was set
\* with " Monthly"
C12Witness ==
    /\ result.op = "update_priority"
    /\ Succeeded(result)
    /\ result.args[2] = StrHigh
    /\ \E i \in 1..Len(todos) :
           /\ todos[i]["priority"] = High
           /\ todos[i]["recurrence_pattern"] = Monthly

\* C13 (part): every stored title is non-empty after trimming and of at most
\* 200 characters, every stored description is a string of at most 1000.
C13Stored ==
    \A i \in 1..Len(todos) :
        /\ todos[i]["title"] # None
        /\ Strip(todos[i]["title"]) # <<>>
        /\ Len(todos[i]["title"]) <= MAX_TITLE
        /\ todos[i]["description"] # None
        /\ Len(todos[i]["description"]) <= MAX_DESCRIPTION

\* the error a title and a description call for, OK_MSG when none; absent
\* says whether a title of None stands for "no new title" (update) or is a
\* missing title (add)
C13Expected(title, description, absent) ==
    IF title = None /\ ~absent THEN ERR_TITLE_EMPTY
    ELSE IF title # None /\ Strip(title) = <<>> THEN ERR_TITLE_EMPTY
    ELSE IF title # None /\ Len(title) >= MAX_TITLE + 1 THEN ERR_TITLE_LONG
    ELSE IF description # None /\ Len(description) >= MAX_DESCRIPTION + 1 THEN ERR_DESC_LONG
    ELSE OK_MSG

\* C13 (part): add, and update of a stored todo, succeed exactly when the
\* title and the description are within their limits, and otherwise fail with
\* the message of the first limit broken.
C13Answers ==
    /\ result.op = "add_todo" =>
           LET e == C13Expected(result.args[1], result.args[2], FALSE)
           IN  IF e = OK_MSG THEN Succeeded(result)
               ELSE Failed(result) /\ Message(result) = e
    /\ (result.op = "update_todo" /\ TargetOf(todos, result) # 0) =>
           LET e == C13Expected(result.args[2], result.args[3], TRUE)
           IN  IF e = OK_MSG THEN Succeeded(result)
               ELSE Failed(result) /\ Message(result) = e

\* C13: stored titles are non-empty after trimming and of at most 200
\* characters, stored descriptions are strings of at most 1000; add and update
\* accept a title of 200 characters and reject one of 201 as too long, reject
\* an empty or whitespace-only title as empty, accept a description of 1000
\* characters and reject one of 1001 as too long.
C13TitleAndDescriptionBounds == C13Stored /\ C13Answers

\* a todo holds a title of 200 characters and a description of 1000, and an
\* update with a title of 201 characters has just been refused
C13Witness ==
    /\ result.op = "update_todo"
    /\ result.args[2] = LongTitle
    /\ Failed(result)
    /\ Message(result) = ERR_TITLE_LONG
    /\ \E i \in 1..Len(todos) :
           /\ Len(todos[i]["title"]) = MAX_TITLE
           /\ Len(todos[i]["description"]) = MAX_DESCRIPTION

\* C14 (part): a successful add appends one todo with the id the counter had,
\* the title and the description given ("" for None), not completed, priority
\* Medium, no tags and no recurrence; it returns that id, raises the counter
\* by one and leaves the todos already stored as they were.
C14Add ==
    (result'.op = "add_todo" /\ Succeeded(result')) =>
        LET new == todos'[Len(todos')]
        IN  /\ Len(todos') = Len(todos) + 1
            /\ SubSeq(todos', 1, Len(todos)) = todos
            /\ new["id"] = next_id
            /\ new["title"] = result'.args[1]
            /\ new["description"] =
                   (IF result'.args[2] = None THEN <<>> ELSE result'.args[2])
            /\ new["completed"] = FALSE
            /\ new["priority"] = Medium
            /\ new["tags"] = <<>>
            /\ new["recurrence_pattern"] = None
            /\ new["next_occurrence"] = None
            /\ result'.ret[2] = next_id
            /\ next_id' = next_id + 1

\* C14: a fresh store is empty with counter 1, and a successful add stores
\* exactly one new todo with the counter's value as id, the given title and
\* description ("" when absent), the defaults in the other fields, returns
\* the id, raises the counter by one and changes no stored todo.
C14AddStoresOne == (todos = <<>> /\ next_id = 1) /\ [][C14Add]_vars

\* add("a", None) succeeded after an add with a description: the new todo
\* holds "" and the first one its description
C14Witness ==
    /\ result.op = "add_todo"
    /\ Succeeded(result)
    /\ result.args[2] = None
    /\ Len(todos) = 2
    /\ todos[1]["description"] = FullDescription
    /\ todos[2]["description"] = <<>>

\* C15 (part): no update call changes the counter, the number of todos, or
\* any field of any todo other than title and description.
C15Frame ==
    result'.op = "update_todo" =>
        /\ next_id' = next_id
        /\ Len(todos') = Len(todos)
        /\ \A j \in 1..Len(todos) :
               /\ DOMAIN todos'[j] = DOMAIN todos[j]
               /\ \A k \in DOMAIN todos[j] \ {"title", "description"} :
                      todos'[j][k] = todos[j][k]

\* C15 (part): a successful update writes the title and the description that
\* are given, leaves the one that is None as it was, and leaves every other
\* todo as it was.
C15Effect ==
    (result'.op = "update_todo" /\ Succeeded(result')) =>
        LET i == TargetOf(todos, result')
            new_title == result'.args[2]
            new_description == result'.args[3]
        IN  /\ i # 0
            /\ \A j \in 1..Len(todos) : j # i => todos'[j] = todos[j]
            /\ todos'[i]["title"] =
                   (IF new_title = None THEN todos[i]["title"] ELSE new_title)
            /\ todos'[i]["description"] =
                   (IF new_description = None THEN todos[i]["description"]
                    ELSE new_description)

C15WitnessBothAbsent ==
    /\ result.op = "update_todo"
    /\ Succeeded(result)
    /\ result.args[2] = None
    /\ result.args[3] = None
    /\ TargetOf(todos, result) # 0
    /\ todos[TargetOf(todos, result)]["description"] = <<"c">>

\* C16 (part): a successful delete removes the todo with the id given and no
\* other, keeps the others as they were and in their order, and leaves the
\* counter.
C16Effect ==
    (result'.op = "delete_todo" /\ Succeeded(result')) =>
        LET i == TargetOf(todos, result')
        IN  /\ i # 0
            /\ todos' = SubSeq(todos, 1, i - 1) \o SubSeq(todos, i + 1, Len(todos))
            /\ todos[i]["id"] \notin Ids(todos')
            /\ next_id' = next_id

\* C16 (part): a delete with a well-formed id that no stored todo has, such
\* as the id of a todo deleted before, reports that id as not found and
\* changes nothing.
C16Gone ==
    (/\ result'.op = "delete_todo"
     /\ validate_id(result'.args[1])[1]
     /\ TargetOf(todos, result') = 0)
    => /\ Failed(result')
       /\ Message(result') = NotFoundMsg(validate_id(result'.args[1])[2])
       /\ todos' = todos
       /\ next_id' = next_id

C16WitnessAgain ==
    /\ result.op = "delete_todo"
    /\ Failed(result)
    /\ Message(result) = NotFoundMsg(2)
    /\ next_id > 2

\* C17: the list get_all_todos returns holds every stored todo exactly once
\* and nothing else, in strictly ascending order of id.
C17ListSorted ==
    result.op = "get_all_todos" =>
        LET listed == result.ret
        IN  /\ Len(listed) = Len(todos)
            /\ \A i \in 1..Len(todos) : \E k \in 1..Len(listed) : listed[k] = todos[i]
            /\ \A k \in 1..Len(listed) : \E i \in 1..Len(todos) : listed[k] = todos[i]
            /\ \A k \in 1..(Len(listed) - 1) : listed[k]["id"] < listed[k + 1]["id"]

\* two todos were listed, the second of them spawned by a completion
C17Witness ==
    /\ result.op = "get_all_todos"
    /\ Len(result.ret) = 2
    /\ result.ret[1]["id"] = 1
    /\ result.ret[2]["id"] = 2
    /\ result.ret[2]["next_occurrence"] # None

C18Fields ==
    {"id", "title", "description", "completed", "priority", "tags", "created_at",
     "recurrence_pattern", "recurrence_interval", "next_occurrence"}

\* the value the migration gives a field that a record lacks
C18Default(k) ==
    CASE k = "priority" -> Medium
      [] k = "tags" -> <<>>
      [] k = "created_at" -> now
      [] k = "recurrence_pattern" -> None
      [] k = "recurrence_interval" -> 1
      [] k = "next_occurrence" -> None

\* C18 (part): get_all_todos leaves in the store, for every record, the record
\* with each field it had unchanged and each field it lacked at its default.
C18Fills ==
    result'.op = "get_all_todos" =>
        /\ Len(todos') = Len(todos)
        /\ next_id' = next_id
        /\ \A i \in 1..Len(todos) :
               /\ DOMAIN todos'[i] = C18Fields
               /\ \A k \in C18Fields :
                      todos'[i][k] = IF k \in DOMAIN todos[i] THEN todos[i][k]
                                     ELSE C18Default(k)
        /\ \A i \in 1..Len(todos) : \E k \in 1..Len(result'.ret) : result'.ret[k] = todos'[i]

\* C18 (part): get_all_todos on records that lack no field, and so a second
\* get_all_todos after a first, changes nothing and returns the same list.
C18Again ==
    /\ (result'.op = "get_all_todos" /\ \A i \in 1..Len(todos) : DOMAIN todos[i] = C18Fields)
           => todos' = todos
    /\ (result'.op = "get_all_todos" /\ result.op = "get_all_todos")
           => (todos' = todos /\ result' = result)

\* C18: listing fills in exactly the fields a stored record lacks with the
\* defaults (priority Medium, no tags, created_at now, no pattern, interval 1,
\* no next occurrence), leaves the fields present unchanged, keeps the
\* upgraded records in the store, and a second listing changes nothing.
C18MigrationIdempotent == [][C18Fills /\ C18Again]_vars

\* a record of the first schema, given a pattern by set_recurrence, was
\* listed: it kept the pattern and got the default priority and the clock's
\* value as created_at
C18Witness ==
    /\ result.op = "get_all_todos"
    /\ Len(todos) >= 1
    /\ todos[1]["id"] = 1
    /\ todos[1]["recurrence_pattern"] = Monthly
    /\ todos[1]["priority"] = Medium
    /\ todos[1]["created_at"] = now

C19Ops ==
    {"update_todo", "delete_todo", "mark_complete", "mark_incomplete",
     "update_priority", "add_tags", "remove_tags", "set_recurrence"}

\* the positive integer an id argument stands for, 0 when it stands for none
C19Id(x) == IF IntParses(x) /\ IntOf(x) >= 1 THEN IntOf(x) ELSE 0

\* C19: a call of an operation that takes an id fails with the invalid-id
\* message when the id is no positive integer, and with the not-found
\* message naming the id when it is one that no stored todo has, whatever
\* the other arguments are; with the id of a stored todo it answers neither.
C19IdErrorsFirst ==
    [][result'.op \in C19Ops =>
          LET id == C19Id(result'.args[1])
          IN  IF id = 0
              THEN Failed(result') /\ Message(result') = ERR_ID
              ELSE IF id \notin Ids(todos)
              THEN Failed(result') /\ Message(result') = NotFoundMsg(id)
              ELSE /\ Returns(result')
                   /\ Message(result') \notin {ERR_ID, NotFoundMsg(id)}]_vars

\* update_priority(999, "urgent") on a collection without todo 999: not found
C19Witness ==
    /\ result.op = "update_priority"
    /\ result.args = <<IntVal(MAX_TODOS - 1), StrUrgent>>
    /\ Failed(result)
    /\ Message(result) = NotFoundMsg(MAX_TODOS - 1)
    /\ Len(todos) >= 1

\* add_tags(None, a tag of 21 characters): invalid id, not invalid tags
C19WitnessInvalid ==
    /\ result.op = "add_tags"
    /\ result.args = <<NoneVal, ListVal(<<LongTag>>)>>
    /\ Message(result) = ERR_ID

\* the tags a todo has, none when it has no tags field
C20Tags(todo) == Get(todo, "tags", <<>>)

\* the normalized tags of the second argument of the call r
C20Normalized(r) == validate_tags(r.args[2])[2]

C20In(t, tags) == \E k \in 1..Len(tags) : tags[k] = t

\* the todo the successful call r changed, before and after
C20Add(old, new, r) ==
    LET added == SelectSeq(C20Normalized(r), LAMBDA t : ~C20In(t, old))
    IN  /\ new = old \o added
        /\ SelectSeq(C20Normalized(r), LAMBDA t : ~C20In(t, new)) = <<>>

C20Remove(old, new, r) ==
    new = SelectSeq(old, LAMBDA t : ~C20In(t, C20Normalized(r)))

\* C20: a successful add_tags leaves the todo with its previous tags in
\* their order followed by the normalized new tags it did not have, in input
\* order, so that the same call again would add nothing; a successful
\* remove_tags leaves it with its previous tags without the normalized tags
\* given, in their order, whether or not the todo had each of them.
C20TagsMergedInOrder ==
    [][Succeeded(result') /\ result'.op \in {"add_tags", "remove_tags"} =>
          LET i == TargetOf(todos, result')
              old == C20Tags(todos[i])
              new == C20Tags(todos'[i])
          IN  /\ i # 0
              /\ Len(todos') = Len(todos)
              /\ IF result'.op = "add_tags"
                 THEN C20Add(old, new, result')
                 ELSE C20Remove(old, new, result')]_vars

\* add_tags([" Home", "work", ...]) has extended the tags <<work>>
C20Witness ==
    /\ result.op = "add_tags"
    /\ result.args[2] = ListVal(HomeWorkDotted)
    /\ Succeeded(result)
    /\ \E i \in 1..Len(todos) :
          /\ Len(C20Tags(todos[i])) = 3
          /\ C20Tags(todos[i])[1] = <<"w","o","r","k">>
          /\ C20Tags(todos[i])[2] = <<"h","o","m","e">>

\* remove_tags("Work, work") has succeeded on a todo without that tag
C20WitnessAbsent ==
    /\ result.op = "remove_tags"
    /\ result.args[2] = StrVal(StrWork)
    /\ Succeeded(result)
    /\ \E i \in 1..Len(todos) :
          /\ i = TargetOf(todos, result)
          /\ C20Tags(todos[i]) = <<>>

\* the pattern a pattern argument stands for: None, a canonical name, or
\* "invalid"
C21Canonical(pattern) ==
    IF pattern = None THEN None
    ELSE LET p == Lower(Strip(pattern))
         IN  IF p = <<>> \/ p = <<"n","o","n","e">> THEN None
             ELSE IF p = <<"d","a","i","l","y">> THEN Daily
             ELSE IF p = <<"w","e","e","k","l","y">> THEN Weekly
             ELSE IF p = <<"m","o","n","t","h","l","y">> THEN Monthly
             ELSE "invalid"

\* the todo with the three recurrence fields replaced
C21With(todo, pattern, interval) ==
    [k \in DOMAIN todo \cup {"recurrence_pattern", "recurrence_interval", "next_occurrence"} |->
        IF k = "recurrence_pattern" THEN pattern
        ELSE IF k = "recurrence_interval" THEN interval
        ELSE IF k = "next_occurrence" THEN None
        ELSE todo[k]]

C21Step ==
    result'.op = "set_recurrence" =>
        LET i == TargetOf(todos, result')
            canonical == C21Canonical(result'.args[2])
        IN  /\ Returns(result')
            /\ next_id' = next_id
            /\ Len(todos') = Len(todos)
            /\ \A k \in 1..Len(todos) : todos'[k]["completed"] = todos[k]["completed"]
            /\ i # 0 =>
                  IF canonical = "invalid"
                  THEN /\ Failed(result')
                       /\ Message(result') = ERR_PATTERN
                       /\ todos' = todos
                  ELSE /\ Succeeded(result')
                       /\ todos' = [todos EXCEPT ![i] =
                              C21With(@, canonical,
                                      IF canonical = None THEN 1 ELSE result'.args[3])]

\* C21: set_recurrence on a stored todo with an absent, empty or "none"
\* pattern leaves it with no pattern, interval 1 and no next occurrence;
\* with daily, weekly or monthly in any letter case it stores the canonical
\* pattern and the interval given and no next occurrence; with any other
\* pattern it fails with the pattern message and changes nothing; it never
\* changes completed, the number of todos or the id counter.
C21SetsRecurrence == [][C21Step]_vars

\* set_recurrence(" 1", "none", 2) has cleared the recurrence of the todo
C21Witness ==
    /\ result.op = "set_recurrence"
    /\ result.args[2] = StrNone
    /\ result.args[3] = 2
    /\ Succeeded(result)
    /\ \E i \in 1..Len(todos) :
          /\ i = TargetOf(todos, result)
          /\ todos[i]["recurrence_pattern"] = None
          /\ todos[i]["recurrence_interval"] = 1

\* set_recurrence(1, "WEEKLY", 2) has stored Weekly and 2
C21WitnessWeekly ==
    /\ result.op = "set_recurrence"
    /\ result.args[2] = StrWeekly
    /\ Succeeded(result)
    /\ \E i \in 1..Len(todos) :
          /\ todos[i]["recurrence_pattern"] = Weekly
          /\ todos[i]["recurrence_interval"] = 2
          /\ todos[i]["next_occurrence"] = None

C22IsDate(d) ==
    /\ d[1] \in MINYEAR..MAXYEAR
    /\ d[2] \in 1..12
    /\ d[3] \in 1..DaysInMonth(d[1], d[2])

\* the number of the month of a date, counted from year 0
C22MonthNumber(d) == d[1] * 12 + d[2]

\* next is the date the recurrence (pattern, interval) gives after base
C22Follows(base, pattern, interval, next) ==
    /\ C22IsDate(next)
    /\ pattern = Daily => ToOrdinal(next) = ToOrdinal(base) + interval
    /\ pattern = Weekly => ToOrdinal(next) = ToOrdinal(base) + 7 * interval
    /\ pattern = Monthly =>
          /\ C22MonthNumber(next) = C22MonthNumber(base) + interval
          /\ next[3] = IF base[3] <= DaysInMonth(next[1], next[2])
                       THEN base[3] ELSE DaysInMonth(next[1], next[2])

\* C22: when completing a recurring todo appends its next instance, the
\* instance's next_occurrence is the completion date plus the interval in
\* days (Daily), in weeks (Weekly) or in calendar months with the day of the
\* month clamped to the length of the target month (Monthly), and its id is
\* not the id of the completed todo.
C22NextOccurrence ==
    [][result'.op = "mark_complete" /\ Len(todos') = Len(todos) + 1 =>
          LET i == TargetOf(todos, result')
              spawned == todos'[Len(todos')]
          IN  /\ i # 0
              /\ todos[i]["recurrence_pattern"] \in {Daily, Weekly, Monthly}
              /\ C22Follows(now, todos[i]["recurrence_pattern"],
                            todos[i]["recurrence_interval"], spawned["next_occurrence"])
              /\ spawned["id"] # todos[i]["id"]]_vars

\* completed on 31 January monthly: the next instance is due on 28 February
C22Witness ==
    /\ result.op = "mark_complete"
    /\ Succeeded(result)
    /\ now = <<2025, 1, 31>>
    /\ \E k \in 1..Len(todos) :
          /\ todos[k]["recurrence_pattern"] = Monthly
          /\ todos[k]["recurrence_interval"] = 1
          /\ todos[k]["next_occurrence"] = <<2025, 2, 28>>

\* completed on 31 December every second week: due on 14 January
C22WitnessWeekly ==
    /\ result.op = "mark_complete"
    /\ now = <<2025, 12, 31>>
    /\ \E k \in 1..Len(todos) :
          /\ todos[k]["recurrence_pattern"] = Weekly
          /\ todos[k]["next_occurrence"] = <<2026, 1, 14>>

\* the pieces of a tags argument: the elements of a list, the parts of a
\* string between its commas
C23Pieces(x) == IF x.type = "list" THEN x.val ELSE Split(x.val, ",")

\* the trimmed pieces that are not empty
C23Kept(x) ==
    SelectSeq([i \in 1..Len(C23Pieces(x)) |-> Strip(C23Pieces(x)[i])], LAMBDA t : t # <<>>)

C23First(s, t) == CHOOSE k \in 1..Len(s) : s[k] = t /\ \A h \in 1..(k - 1) : s[h] # t

\* r holds each element of s once, in the order of first occurrence in s
C23FirstOccurrences(s, r) ==
    /\ \A a, b \in 1..Len(r) : a # b => r[a] # r[b]
    /\ {r[a] : a \in 1..Len(r)} = {s[k] : k \in 1..Len(s)}
    /\ \A a, b \in 1..Len(r) : a < b => C23First(s, r[a]) < C23First(s, r[b])

\* C23: validate_tags splits a string on commas (or takes the elements of a
\* list), trims each piece, drops the empty ones, lowercases the others and
\* keeps the first occurrence of each in input order; None or an empty
\* string gives the empty list; a non-empty piece of more than 20 characters
\* makes the whole call fail with the tag message and no tags.
C23ValidateTags ==
    result.op = "validate_tags" =>
        LET x == result.args[1]
        IN  /\ result.exc = None
            /\ IF x.type = "NoneType" THEN result.ret = <<TRUE, <<>>, OK_MSG>>
               ELSE LET kept == C23Kept(x)
                        lowered == [i \in 1..Len(kept) |-> Lower(kept[i])]
                    IN  IF \E i \in 1..Len(kept) : Len(kept[i]) > MAX_TAG
                        THEN result.ret = <<FALSE, None, ERR_TAGS>>
                        ELSE /\ result.ret[1] = TRUE
                             /\ result.ret[3] = OK_MSG
                             /\ C23FirstOccurrences(lowered, result.ret[2])
                             /\ kept = <<>> => result.ret[2] = <<>>

\* validate_tags("B,b") has returned the single tag b
C23Witness ==
    /\ result.op = "validate_tags"
    /\ result.args[1] = StrVal(<<"B",",","b">>)
    /\ result.ret = <<TRUE, <<<<"b">>>>, OK_MSG>>

\* validate_tags([" a", "A"]) has returned the single tag a
C23WitnessList ==
    /\ result.op = "validate_tags"
    /\ result.args[1] = ListVal(<<<<" ","a">>, <<"A">>>>)
    /\ result.ret = <<TRUE, <<<<"a">>>>, OK_MSG>>

\* validate_tags("a," + 21 characters) has failed and returned no tags
C23WitnessTooLong ==
    /\ result.op = "validate_tags"
    /\ result.args[1] = StrVal(<<"a",",">> \o LongTag)
    /\ result.ret = <<FALSE, None, ERR_TAGS>>

\* the positive integer that an id argument denotes (an integer, a float
\* without fraction, or decimal text), 0 when it denotes none
C24Denotes(x) ==
    IF x.type = "int" THEN (IF x.val > 0 THEN x.val ELSE 0)
    ELSE IF x.type = "float"
    THEN (IF x.val[1] = "finite" /\ x.val[2] > 0 /\ x.val[2] % 10 = 0
          THEN x.val[2] \div 10 ELSE 0)
    ELSE IF x.type = "str" /\ IsDigits(IntBody(x)) /\ Head(Strip(x.val)) # "-"
    THEN DigitsValue(IntBody(x))
    ELSE 0

\* C24: validate_id returns (valid, n) exactly when its argument denotes an
\* integer n > 0, and for every other argument (text that is no number, a
\* number with a fraction, zero, a negative number, None) it returns the
\* invalid-id message and no parsed value; it never raises.
C24ValidateId ==
    result.op = "validate_id" =>
        LET n == C24Denotes(result.args[1])
        IN  /\ result.exc = None
            /\ result.ret = IF n > 0 THEN <<TRUE, n, OK_MSG>> ELSE <<FALSE, None, ERR_ID>>

\* text holds keyword somewhere, letter case apart
C25Holds(text, keyword) ==
    \E i, j \in 0..Len(text) : i <= j /\ Lower(SubSeq(text, i + 1, j)) = Lower(keyword)

C25Matches(todo, keyword) ==
    C25Holds(todo["title"], keyword) \/ C25Holds(todo["description"], keyword)

C25Blank(keyword) ==
    keyword = None \/ \A i \in 1..Len(keyword) : keyword[i] \in Whitespace

C25Step ==
    result'.op = "search_todos" =>
        LET keyword == result'.args[1]
            found == result'.ret
        IN  /\ result'.exc = None
            /\ next_id' = next_id
            /\ todos' = todos
            /\ \A a, b \in 1..Len(found) : a < b => found[a]["id"] < found[b]["id"]
            /\ \A a \in 1..Len(found) : \E i \in 1..Len(todos) : todos[i] = found[a]
            /\ \A i \in 1..Len(todos) :
                  (\E a \in 1..Len(found) : found[a] = todos[i])
                      <=> (C25Blank(keyword) \/ C25Matches(todos[i], keyword))

\* C25: search_todos with an empty or blank keyword returns every stored
\* todo in ascending id; with another keyword it returns, in ascending id,
\* exactly the stored todos whose title or description holds the keyword
\* letter case apart (none when none does); it leaves the stored todos, their
\* order and the id counter as they were.
C25SearchFinds == [][C25Step]_vars

\* search_todos("aB") has found todo 1 by its title and todo 2 by its description
C25Witness ==
    /\ result.op = "search_todos"
    /\ result.args[1] = <<"a","B">>
    /\ Len(todos) = 2
    /\ Len(result.ret) = 2
    /\ result.ret[1]["title"] = <<"A","b">>
    /\ result.ret[2]["description"] = <<"a","B","c">>

\* search_todos("z") on a store of two has found nothing
C25WitnessNone ==
    /\ result.op = "search_todos"
    /\ result.args[1] = <<"z">>
    /\ Len(todos) = 2
    /\ result.ret = <<>>

C26Ops == {"filter_by_status", "filter_by_priority", "filter_by_tag"}

\* the todo matches the second argument of the filter op
C26Matches(op, todo, q) ==
    IF op = "filter_by_status" THEN todo["completed"] = q
    ELSE IF op = "filter_by_priority" THEN Lower(todo["priority"]) = Lower(q)
    ELSE \E k \in 1..Len(todo["tags"]) : todo["tags"][k] = Lower(q)

\* ret holds, in the order of list, the elements of list at the positions of keep
C26Selects(list, ret, keep) ==
    \E f \in [1..Len(ret) -> 1..Len(list)] :
        /\ \A a, b \in 1..Len(ret) : a < b => f[a] < f[b]
        /\ \A a \in 1..Len(ret) : ret[a] = list[f[a]]
        /\ {f[a] : a \in 1..Len(ret)} = keep

\* C26: each filter returns exactly the todos of the list it is given that
\* match (status equal to the flag; priority equal letter case apart; tag
\* carried, letter case of the query apart), in the order of the list, and
\* leaves the store as it was; a todo without tags matches no tag.
C26FiltersSelect ==
    [][result'.op \in C26Ops =>
          LET list == result'.args[1]
              q == result'.args[2]
              keep == {i \in 1..Len(list) : C26Matches(result'.op, list[i], q)}
          IN  /\ result'.exc = None
              /\ todos' = todos
              /\ next_id' = next_id
              /\ C26Selects(list, result'.ret, keep)
              /\ (result'.op = "filter_by_tag" /\ \A i \in 1..Len(list) : list[i]["tags"] = <<>>)
                    => result'.ret = <<>>]_vars

\* filter_by_tag(the todos 5, 3, 2, "Work") has returned the todos 3 and 2
C26Witness ==
    /\ result.op = "filter_by_tag"
    /\ result.args[2] = <<"W","o","r","k">>
    /\ Len(result.args[1]) = 3
    /\ Len(result.ret) = 2
    /\ result.ret[1]["id"] = 3
    /\ result.ret[2]["id"] = 2

\* filter_by_tag over the two todos without tags has returned nothing
C26WitnessNoTags ==
    /\ result.op = "filter_by_tag"
    /\ Len(result.args[1]) = 2
    /\ \A i \in 1..2 : result.args[1][i]["tags"] = <<>>
    /\ result.ret = <<>>

C27Ops == {"sort_by_title", "sort_by_priority", "sort_by_created_date", "sort_by_status"}

\* the key of x is before the key of y in the ascending order of the sort op
C27KeyLess(op, x, y) ==
    IF op = "sort_by_title" THEN StrLess(Lower(x["title"]), Lower(y["title"]))
    ELSE IF op = "sort_by_priority"
    THEN \/ x["priority"] = High /\ y["priority"] \in {Medium, Low}
         \/ x["priority"] = Medium /\ y["priority"] = Low
    ELSE IF op = "sort_by_created_date"
    THEN ToOrdinal(x["created_at"]) < ToOrdinal(y["created_at"])
    ELSE ~x["completed"] /\ y["completed"]

\* the flag of the call asks for the descending order
C27Descending(op, flag) == IF op = "sort_by_created_date" THEN flag ELSE ~flag

C27Index(list, todo) == CHOOSE i \in 1..Len(list) : list[i] = todo

\* C27: each sort returns a permutation of the list it is given, ordered by
\* its key in the direction asked (priority High before Medium before Low
\* when ascending), todos with equal keys in the order they had in the list,
\* in both directions, and leaves the store as it was.
C27SortsStable ==
    [][result'.op \in C27Ops =>
          LET op == result'.op
              list == result'.args[1]
              down == C27Descending(op, result'.args[2])
              ret == result'.ret
          IN  /\ result'.exc = None
              /\ todos' = todos
              /\ next_id' = next_id
              /\ Len(ret) = Len(list)
              /\ \A i \in 1..Len(list) : \E p \in 1..Len(ret) : ret[p] = list[i]
              /\ \A p, q \in 1..Len(ret) : p < q =>
                    LET x == ret[p]
                        y == ret[q]
                    IN  /\ IF down THEN ~C27KeyLess(op, x, y) ELSE ~C27KeyLess(op, y, x)
                        /\ (~C27KeyLess(op, x, y) /\ ~C27KeyLess(op, y, x))
                              => C27Index(list, x) < C27Index(list, y)]_vars

\* sort_by_priority(the todos 2, 3, 4, high_first=False) has returned 4, 2, 3
C27Witness ==
    /\ result.op = "sort_by_priority"
    /\ result.args[2] = FALSE
    /\ Len(result.ret) = 3
    /\ result.args[1][1]["id"] = 2
    /\ result.ret[1]["id"] = 4
    /\ result.ret[2]["id"] = 2
    /\ result.ret[3]["id"] = 3

\* sort_by_title(the todos 3, 2, 1, ascending=True) has returned 3, 2, 1
C27WitnessTitle ==
    /\ result.op = "sort_by_title"
    /\ result.args[2] = TRUE
    /\ Len(result.ret) = 3
    /\ result.args[1][1]["id"] = 3
    /\ result.ret[1]["id"] = 3
    /\ result.ret[2]["id"] = 2
    /\ result.ret[3]["id"] = 1

\* C28: the tags of a next instance are a list of its own: a successful
\* add_tags or remove_tags changes the todo it names and no other, be it the
\* todo that was completed or the instance that repeats it.
C28SpawnTagsIndependent ==
    [][(Succeeded(result') /\ result'.op \in {"add_tags", "remove_tags"}) =>
          /\ Len(todos') = Len(todos)
          /\ \A k \in 1..Len(todos) : k # TargetOf(todos, result') => todos'[k] = todos[k]]_vars

\* add_tags on the completed todo 1 after its next instance 2 was made
\* without tags: todo 1 has the tag, todo 2 none
C28Witness ==
    /\ result.op = "add_tags"
    /\ Succeeded(result)
    /\ Len(todos) >= 2
    /\ todos[1]["completed"]
    /\ todos[2]["next_occurrence"] # None
    /\ todos[1]["tags"] = <<TagHome>>
    /\ todos[2]["tags"] = <<>>

\* remove_tags on the next instance made with the tag: the completed todo keeps it
C28WitnessRemove ==
    /\ result.op = "remove_tags"
    /\ Succeeded(result)
    /\ Len(todos) >= 2
    /\ todos[2]["next_occurrence"] # None
    /\ todos[1]["tags"] = <<TagHome>>
    /\ todos[2]["tags"] = <<>>

C29StoreOps ==
    {"update_todo", "mark_complete", "mark_incomplete", "update_priority", "add_tags",
     "remove_tags", "set_recurrence", "delete_todo"}

\* the records the caller holds, as it sees them
C29Views == [p \in 1..Len(held) |-> View(held[p])]

\* C29: the records a query returned are snapshots: a later call that
\* changes the store leaves every record the caller holds as it was, and a
\* caller that writes a field of a record it holds leaves the store as it was.
C29Snapshots ==
    [][/\ result'.op \in C29StoreOps => C29Views' = C29Views
       /\ result'.op = "caller_writes" => todos' = todos]_vars

\* The console.  display_menu() prints these lines: the number a user
\* enters, and the label beside it
display_menu ==
    << <<<<"1">>, "Add Todo">>, <<<<"2">>, "List All Todos">>, <<<<"3">>, "Update Todo">>,
       <<<<"4">>, "Delete Todo">>, <<<<"5">>, "Mark Todo Complete">>,
       <<<<"6">>, "Mark Todo Incomplete">>, <<<<"7">>, "Set Priority">>,
       <<<<"8">>, "Manage Tags">>, <<<<"9">>, "Search & Filter">>,
       <<<<"1","0">>, "Sort">>, <<<<"1","1">>, "Set Recurrence">>, <<<<"1","2">>, "Exit">> >>

\* the handler cli.py defines for each label of the menu
Handlers ==
    [label \in {display_menu[k][2] : k \in 1..Len(display_menu)} \ {"Exit"} |->
        CASE label = "Add Todo" -> "handle_add"
          [] label = "List All Todos" -> "handle_list"
          [] label = "Update Todo" -> "handle_update"
          [] label = "Delete Todo" -> "handle_delete"
          [] label = "Mark Todo Complete" -> "handle_mark_complete"
          [] label = "Mark Todo Incomplete" -> "handle_mark_incomplete"
          [] label = "Set Priority" -> "handle_set_priority"
          [] label = "Manage Tags" -> "handle_manage_tags"
          [] label = "Search & Filter" -> "handle_search_filter"
          [] label = "Sort" -> "handle_sort"
          [] label = "Set Recurrence" -> "handle_set_recurrence"]

InvalidChoice == "Error: Invalid choice. Please enter 1-10."

\* The position of main()'s loop is read off result: main has called the
\* handler result.ret and the handler has not run yet,
Dispatched(handler) == result.op = "main" /\ result.ret = handler

\* or main has left its loop,
Exited == result.op = "main" /\ result.ret = "break"

\* or the loop is at the menu, waiting for a choice
AtMenu == result.op = "main" => result.ret = InvalidChoice

\* one turn of main()'s loop up to the call of a handler: the menu is
\* shown, the choice read, and the branch for it taken
main(choice) ==
    /\ AtMenu
    /\ result' = Returned("main", <<choice>>,
                    IF choice = <<"1","0">> THEN "break"
                    ELSE IF choice \notin {<<"1">>, <<"2">>, <<"3">>, <<"4">>, <<"5">>, <<"6">>,
                                           <<"7">>, <<"8">>, <<"9">>}
                    THEN InvalidChoice
                    ELSE CASE choice = <<"1">> -> "handle_add"
                           [] choice = <<"2">> -> "handle_list"
                           [] choice = <<"5">> -> "handle_mark_complete"
                           [] choice = <<"6">> -> "handle_mark_incomplete"
                           [] choice = <<"3">> -> "handle_update"
                           [] choice = <<"4">> -> "handle_delete"
                           [] choice = <<"7">> -> "handle_set_priority"
                           [] choice = <<"8">> -> "handle_manage_tags"
                           [] choice = <<"9">> -> "handle_search_filter")
    /\ UNCHANGED <<todos, next_id, now, held, shared>>

\* handle_add(): the title and the description the user types
handle_add(title, description) ==
    /\ Dispatched("handle_add")
    /\ add_todo(title, IF description = <<>> THEN None ELSE description)

\* handle_list()
handle_list ==
    /\ Dispatched("handle_list")
    /\ get_all_todos

\* handle_mark_complete(): the id is the text the user types
handle_mark_complete(todo_id) ==
    /\ Dispatched("handle_mark_complete")
    /\ mark_complete(StrVal(todo_id))

\* handle_mark_incomplete()
handle_mark_incomplete(todo_id) ==
    /\ Dispatched("handle_mark_incomplete")
    /\ mark_incomplete(StrVal(todo_id))

\* handle_update(): a blank title or description keeps the current one
handle_update(todo_id, new_title, new_description) ==
    /\ Dispatched("handle_update")
    /\ update_todo(StrVal(todo_id),
                   IF new_title = <<>> THEN None ELSE new_title,
                   IF new_description = <<>> THEN None ELSE new_description)

\* handle_delete()
handle_delete(todo_id) ==
    /\ Dispatched("handle_delete")
    /\ delete_todo(StrVal(todo_id))

\* handle_set_priority()
handle_set_priority(todo_id, new_priority) ==
    /\ Dispatched("handle_set_priority")
    /\ update_priority(StrVal(todo_id), new_priority)

\* handle_manage_tags(): action is the answer to "Add or Remove tags? (A/R)"
handle_manage_tags(todo_id, action, tags_input) ==
    /\ Dispatched("handle_manage_tags")
    /\ IF Upper(Strip(action)) = <<"A">> THEN add_tags(StrVal(todo_id), StrVal(tags_input))
       ELSE IF Upper(Strip(action)) = <<"R">> THEN remove_tags(StrVal(todo_id), StrVal(tags_input))
       ELSE /\ result' = Returned("handle_manage_tags", <<todo_id, action, tags_input>>, None)
            /\ UNCHANGED <<todos, next_id, now, held, shared>>

\* handle_search_filter(): get_all_todos(), then search_todos(keyword) for a
\* keyword that is not blank; the filters that follow are applied to the
\* list the handler holds and leave the store alone
handle_search_filter(keyword) ==
    /\ Dispatched("handle_search_filter")
    /\ IF Strip(keyword) = <<>> THEN get_all_todos ELSE search_todos(Strip(keyword))

\* what a user types at the menu: every number shown, the numbers around
\* them, and texts that are no number
Choices ==
    {display_menu[k][1] : k \in 1..Len(display_menu)}
        \cup {<<"0">>, <<"1","3">>, <<>>, <<" ","1">>, <<"x">>}

\* what a user types at the prompts of the handlers
ConsoleInputs ==
    [titles |-> {<<"a">>, <<>>},
     ids |-> {<<"1">>, <<"x">>},
     priorities |-> {<<"h","i","g","h">>},
     actions |-> {<<"a">>, <<"R">>, <<"x">>},
     tags |-> {TagHome},
     keywords |-> {<<"a">>, <<>>}]

\* a choice at the menu, or the handler main() has called
Console(in) ==
    \/ \E choice \in Choices : main(choice)
    \/ \E title \in in.titles : handle_add(title, <<>>)
    \/ handle_list
    \/ \E todo_id \in in.ids : handle_mark_complete(todo_id)
    \/ \E todo_id \in in.ids : handle_mark_incomplete(todo_id)
    \/ \E todo_id \in in.ids, new_title \in in.titles : handle_update(todo_id, new_title, <<>>)
    \/ \E todo_id \in in.ids : handle_delete(todo_id)
    \/ \E todo_id \in in.ids, new_priority \in in.priorities :
           handle_set_priority(todo_id, new_priority)
    \/ \E todo_id \in in.ids, action \in in.actions, tags_input \in in.tags :
           handle_manage_tags(todo_id, action, tags_input)
    \/ \E keyword \in in.keywords : handle_search_filter(keyword)

NextConsole == Console(ConsoleInputs)

\* the console: main()'s loop and the handlers it calls
SpecConsole == Init /\ [][NextConsole]_vars

\* the label the menu shows beside the choice, or None
C30Label(choice) ==
    IF \E k \in 1..Len(display_menu) : display_menu[k][1] = choice
    THEN display_menu[CHOOSE k \in 1..Len(display_menu) : display_menu[k][1] = choice][2]
    ELSE "None"

\* C30: every choice the menu shows is dispatched to the handler of its
\* label, the loop ends exactly when the choice labelled Exit is entered, and
\* after every other input (once the handler has run) the loop is back at the
\* menu; after the end no further step is taken.
C30MenuLoop ==
    [][/\ ~Exited
       /\ result'.op = "main" =>
             LET label == C30Label(result'.args[1])
             IN  /\ label \in DOMAIN Handlers => result'.ret = Handlers[label]
                 /\ result'.ret = "break" <=> label = "Exit"
                 /\ label = "None" => result'.ret = InvalidChoice
       /\ result'.op # "main" => AtMenu']_vars



====
